----------------------------- MODULE Accounts_proofs ----------------------------
(***************************************************************************)
(* Proofs about what one user's or one market maker's requests do, for any *)
(* requests, events, orders and limits.  MCAccounts has the instances: Tr  *)
(* for Trade, Pr for Prices, Si for SignIn, Ba for BankDetails, Ma for     *)
(* MatchMaking.  The theorems at the end are about each and about the      *)
(* module that composes them.                                              *)
(***************************************************************************)
EXTENDS MCAccounts, TLAPS, Sums, Sequences, FiniteSetTheorems

-------------------------------------------------------------------------------
(* TRADE.  What a check has read holds until the engine takes the request,   *)
(* because nothing else is at work on the event (OneAtWork): the key is the  *)
(* request's, or its loss is on record.  Requests at work on two events know *)
(* of each other (KnownTogether), and while there are none the number of     *)
(* private events and the money stay what the check has read.                *)

(* The invariant *)

TradeSteps == {"idle", "guarded", "allowed", "checked", "sent", "merging", "answered", "done", "refused"}

EventsTyped == private \subseteq Pair /\ custom \subseteq private /\ editable \subseteq Pair
TradeRequestsTyped ==
    /\ key \in [Pair -> Requests \union {None}]
    /\ data \in [Requests -> Tr!Bodies \union {None}] /\ pc \in [Requests -> TradeSteps]
    /\ pending \subseteq Requests /\ short \subseteq Requests /\ open \subseteq Requests
MarketTyped ==
    /\ wallet \in Nat /\ shares \in [Pair -> Nat] /\ orders \in [Pair -> Nat]
    /\ canceled \in [Pair -> Nat] /\ bought \in [Pair -> Int]

\* A request has its body from its first step on; the engine gets it last.
BodiesFit ==
    /\ \A r \in Requests : data[r] = None => pc[r] \in {"idle", "refused", "done"} /\ r \notin pending
    /\ \A r \in Requests : pc[r] = "idle" => data[r] = None
    /\ \A r \in pending : pc[r] \notin Tr!Begun
    /\ \A r \in open \union short : data[r] # None
    /\ \A r \in open : data[r].type = "order"
    /\ \A r \in Requests : pc[r] \in {"guarded", "allowed"} => ~Tr!Is(r, {"merge"})
    /\ \A r \in Requests : Tr!IsOrder(r) /\ data[r].claim < data[r].amount => Tr!EventOf(r) \in unclear

\* What a cancellation is to cancel is of its event.
CancelsFit ==
    \A r \in Requests : Tr!Is(r, {"cancel"}) /\ (pc[r] = "checked" \/ r \in pending) =>
        /\ data[r].target \in Requests /\ data[data[r].target] # None
        /\ Tr!EventOf(data[r].target) = Tr!EventOf(r)

TradeTyped == EventsTyped /\ TradeRequestsTyped /\ MarketTyped /\ BodiesFit /\ CancelsFit

\* On an event whose key was never lost one request is at work, and the key is its own
\* but for a merge that has not set it yet.
OneAtWork ==
    \A e \in Pair \ lost :
        /\ \A q, r \in Tr!Working(e) : q = r
        /\ \A r \in Tr!Working(e) : key[e] = r \/ (Tr!Is(r, {"merge"}) /\ pc[r] = "checked")

\* Requests that are at work on two events know of each other.
KnownTogether ==
    \A q, r \in Tr!AtWork : Tr!EventOf(q) # Tr!EventOf(r) => q \in together /\ r \in together

\* An order that has passed the limits
Passed(r) == Tr!IsOrder(r) /\ (pc[r] \in {"allowed", "checked"} \/ r \in pending)

\* What was checked of the event holds until the engine takes the order.
StillAllowed(r) ==
    LET e == Tr!EventOf(r) IN
    /\ e \in private \ custom => orders[e] = 0
    /\ e \in custom /\ orders[e] > 0 => orders[e] - canceled[e] < RetentionLimit
    /\ bought[e] + data[r].claim <= MaxTradeAmount
AllowedHold == \A r \in Requests : Passed(r) /\ Tr!EventOf(r) \notin lost => StillAllowed(r)

\* So does the number of private events, when nothing is at work on two.
RoomForEvent ==
    lost = {} /\ together = {} =>
        \A r \in Requests : Passed(r) /\ Tr!EventOf(r) \in private \ custom =>
            Cardinality(Tr!Traded \intersect private) < PrivateLimit

\* So do the money and the shares, unless another request could take them.
StillHeld(r) ==
    /\ Tr!IsOrder(r) => data[r].amount <= wallet
    /\ Tr!Is(r, {"sell", "merge"}) /\ Tr!EventOf(r) \notin editable => data[r].amount <= shares[Tr!EventOf(r)]
HoldingsHold ==
    \A r \in Requests : (pc[r] = "checked" \/ r \in pending) /\ r \notin together /\ Tr!EventOf(r) \notin lost =>
        StillHeld(r)
-------------------------------------------------------------------------------
(* What a request's step changes *)

Arriving(r) == Tr!Start(r) \/ Tr!MergeRead(r)
Leaving(r) == Tr!InProgress(r) \/ Tr!Refuse(r) \/ Tr!Finish(r) \/ Tr!MergeNumbers(r)
TradeGoing(r) ==
    \/ Tr!CheckLimits(r) \/ Tr!CheckHoldings(r) \/ Tr!Send(r) \/ Tr!Answer(r) \/ Tr!MergeSend(r) \/ Tr!MergeDone(r)
Engine(r) == Tr!Buy(r) \/ Tr!Sell(r) \/ Tr!Cancel(r) \/ Tr!Drop(r)
TradeAct(r) == Arriving(r) \/ Leaving(r) \/ TradeGoing(r) \/ Engine(r)

\* The number of members is that of the library.
LEMMA TradeCardinality == \A X : Tr!Cardinality(X) = Cardinality(X)
BY DEF Tr!Cardinality, Cardinality

\* What there is to know of a body
LEMMA BodyFits ==
    ASSUME NEW d \in Tr!Bodies
    PROVE  /\ d # None /\ d.event \in Pair /\ d.type \in {"order", "sell", "cancel", "merge"}
           /\ d.amount \in Nat /\ d.claim \in Nat /\ d.target \in Requests \union {None}
           /\ d.type = "merge" <=> d \in Tr!Merges
           /\ d.type = "merge" => d.amount = 1
BY TradeAssumption DEF Tr!Bodies, Tr!Orders, Tr!Sells, Tr!Cancels, Tr!Merges, Tr!Body, Tr!Amounts

\* The steps a request's step may go to
LEMMA TradeGoes ==
    ASSUME TradeTyped, NEW r \in Requests, TradeAct(r)
    PROVE  pc' = pc \/ \E s \in TradeSteps \ {"idle"} : pc' = [pc EXCEPT ![r] = s]
<1>1. CASE Arriving(r)
  BY <1>1 DEF Arriving, Tr!Start, Tr!MergeRead, Tr!Step, TradeSteps
<1>2. CASE Leaving(r)
  BY <1>2 DEF Leaving, Tr!InProgress, Tr!Refuse, Tr!Finish, Tr!MergeNumbers, Tr!Step, TradeSteps
<1>3. CASE TradeGoing(r)
  BY <1>3 DEF TradeGoing, Tr!CheckLimits, Tr!CheckHoldings, Tr!Send, Tr!Answer, Tr!MergeSend, Tr!MergeDone, Tr!Step, TradeSteps
<1>4. CASE Engine(r)
  BY <1>4 DEF Engine, Tr!Buy, Tr!Sell, Tr!Cancel, Tr!Drop, Tr!Done
<1> QED BY <1>1, <1>2, <1>3, <1>4 DEF TradeAct

\* A request's step touches no other request.
LEMMA TradeActFrame ==
    ASSUME TradeTyped, NEW r \in Requests, TradeAct(r)
    PROVE  /\ private' = private /\ custom' = custom /\ editable' = editable
           /\ \A q \in Requests \ {r} : pc'[q] = pc[q] /\ data'[q] = data[q]
           /\ \A q \in Requests \ {r} : q \in pending' <=> q \in pending
           /\ lost \subseteq lost' /\ together \subseteq together' /\ unclear \subseteq unclear'
           /\ ~Arriving(r) => data' = data /\ together' = together /\ unclear' = unclear
           /\ ~Engine(r) => UNCHANGED Tr!market
<1>1. pc \in [Requests -> TradeSteps] /\ data \in [Requests -> Tr!Bodies \union {None}] /\ pc' \in [Requests -> TradeSteps]
  BY TradeGoes DEF TradeTyped, TradeRequestsTyped
<1>2. \A q \in Requests \ {r} : pc'[q] = pc[q]
  BY <1>1, TradeGoes
<1>3. CASE Arriving(r)
  BY <1>1, <1>2, <1>3 DEF Arriving, Tr!Start, Tr!MergeRead, Tr!Arrive, Tr!event
<1>4. CASE Leaving(r)
  BY <1>2, <1>4 DEF Leaving, Tr!InProgress, Tr!Refuse, Tr!Finish, Tr!MergeNumbers, Tr!DelKey, Tr!event, Tr!history
<1>5. CASE TradeGoing(r)
  BY <1>2, <1>5 DEF TradeGoing, Tr!CheckLimits, Tr!CheckHoldings, Tr!Send, Tr!Answer, Tr!MergeSend, Tr!MergeDone, Tr!event, Tr!history
<1>6. CASE Engine(r)
  BY <1>2, <1>6 DEF Engine, Tr!Buy, Tr!Sell, Tr!Cancel, Tr!Drop, Tr!Done, Tr!event
<1> QED BY <1>3, <1>4, <1>5, <1>6 DEF TradeAct

\* A request has no body before it arrives.
LEMMA ArriveNew ==
    ASSUME TradeTyped, NEW r \in Requests, Arriving(r)
    PROVE  /\ pc[r] = "idle" /\ data[r] = None /\ r \notin pending /\ pending' = pending
           /\ r \notin open \union short
           /\ \E d \in Tr!Bodies :
                 /\ data' = [data EXCEPT ![r] = d] /\ Tr!Arrive(r, d)
                 /\ IF Tr!Start(r) THEN pc' = [pc EXCEPT ![r] = "guarded"] /\ d \notin Tr!Merges
                    ELSE pc' = [pc EXCEPT ![r] = "checked"] /\ d \in Tr!Merges
<1>1. pc[r] = "idle" /\ pending' = pending
  BY DEF Arriving, Tr!Start, Tr!MergeRead, Tr!Step
<1>2. CASE Tr!Start(r)
  <2>1. \A d \in Tr!Orders \union Tr!Sells \union Tr!Cancels : d \in Tr!Bodies /\ d \notin Tr!Merges
    BY DEF Tr!Bodies, Tr!Orders, Tr!Sells, Tr!Cancels, Tr!Merges, Tr!Body
  <2> QED BY <1>1, <1>2, <2>1 DEF Tr!Start, Tr!Arrive, TradeTyped, BodiesFit, Tr!Step
<1>3. CASE ~Tr!Start(r)
  BY <1>1, <1>3 DEF Arriving, Tr!MergeRead, Tr!Arrive, TradeTyped, BodiesFit, Tr!Step, Tr!Bodies
<1> QED BY <1>2, <1>3

\* What has a body keeps it.
LEMMA BodyKept ==
    ASSUME TradeTyped, [Tr!Next]_(Tr!vars), NEW q \in Requests, data[q] # None
    PROVE  data'[q] = data[q]
<1>1. ASSUME NEW r \in Requests, TradeAct(r) PROVE data'[q] = data[q]
  BY <1>1, TradeActFrame, ArriveNew
<1>2. ASSUME NEW r \in Requests, Tr!Fill(r) PROVE data'[q] = data[q]
  BY <1>2 DEF Tr!Fill
<1>3. ASSUME NEW e \in Pair, Tr!KeyExpire(e) PROVE data'[q] = data[q]
  BY <1>3 DEF Tr!KeyExpire
<1>4. CASE UNCHANGED Tr!vars
  BY <1>4 DEF Tr!vars
<1> QED BY <1>1, <1>2, <1>3, <1>4 DEF Tr!Next, TradeAct, Arriving, Leaving, TradeGoing, Engine

\* Steps that are nobody's change no request.
LEMMA OtherFrame ==
    ASSUME TradeTyped, [Tr!Next]_(Tr!vars), ~\E r \in Requests : TradeAct(r)
    PROVE  /\ private' = private /\ custom' = custom /\ editable' = editable
           /\ data' = data /\ pc' = pc /\ pending' = pending
           /\ together' = together /\ unclear' = unclear /\ lost \subseteq lost'
           /\ wallet' = wallet /\ orders' = orders /\ canceled' = canceled /\ bought' = bought /\ short' = short
           /\ \/ key' = key /\ lost' = lost
              \/ \E e \in Pair : Tr!KeyExpire(e)
           /\ \/ shares' = shares /\ open' = open
              \/ \E r \in Requests : Tr!Fill(r)
<1>1. ASSUME NEW r \in Requests, Tr!Fill(r)
      PROVE  /\ private' = private /\ custom' = custom /\ editable' = editable
             /\ data' = data /\ pc' = pc /\ pending' = pending
             /\ together' = together /\ unclear' = unclear /\ lost' = lost /\ key' = key
             /\ wallet' = wallet /\ orders' = orders /\ canceled' = canceled /\ bought' = bought /\ short' = short
  BY <1>1 DEF Tr!Fill, Tr!event, Tr!history
<1>2. ASSUME NEW e \in Pair, Tr!KeyExpire(e)
      PROVE  /\ private' = private /\ custom' = custom /\ editable' = editable
             /\ data' = data /\ pc' = pc /\ pending' = pending
             /\ together' = together /\ unclear' = unclear /\ lost \subseteq lost'
             /\ wallet' = wallet /\ orders' = orders /\ canceled' = canceled /\ bought' = bought /\ short' = short
             /\ shares' = shares /\ open' = open
  BY <1>2 DEF Tr!KeyExpire, Tr!event, Tr!market
<1>3. CASE UNCHANGED Tr!vars
  BY <1>3 DEF Tr!vars, Tr!event, Tr!market, Tr!history
<1> QED BY <1>1, <1>2, <1>3 DEF Tr!Next, TradeAct, Arriving, Leaving, TradeGoing, Engine

\* What the engine does, it does to a request it has.
LEMMA EngineActs ==
    ASSUME TradeTyped, NEW r \in Requests, Engine(r)
    PROVE  /\ r \in pending /\ pending' = pending \ {r} /\ pc' = pc /\ data' = data
           /\ data[r] \in Tr!Bodies /\ Tr!EventOf(r) \in Pair /\ pc[r] \notin Tr!Begun
           /\ r \notin Tr!AtWork'
BY BodyFits DEF Engine, Tr!Buy, Tr!Sell, Tr!Cancel, Tr!Drop, Tr!Done, TradeTyped, BodiesFit, TradeRequestsTyped, Tr!EventOf, Tr!AtWork

\* Only what arrives comes to be at work.
LEMMA WorkBegins ==
    ASSUME TradeTyped, NEW r \in Requests, TradeAct(r)
    PROVE  /\ \A q \in Requests \ {r} : q \in Tr!AtWork' <=> q \in Tr!AtWork
           /\ r \in Tr!AtWork' => r \in Tr!AtWork \/ Arriving(r)
           /\ Arriving(r) => r \notin Tr!AtWork /\ r \in Tr!AtWork'
<1>1. \A q \in Requests \ {r} : q \in Tr!AtWork' <=> q \in Tr!AtWork
  BY TradeActFrame DEF Tr!AtWork
<1>2. CASE Arriving(r)
  <2>1. pc'[r] \in Tr!Begun
    BY <1>2, ArriveNew DEF TradeTyped, TradeRequestsTyped, Tr!Begun
  <2> QED BY <1>1, <1>2, <2>1, ArriveNew DEF Tr!AtWork, Tr!Begun
<1>3. CASE ~Arriving(r)
  <2>1. ASSUME r \notin Tr!AtWork PROVE r \notin Tr!AtWork'
    <3>1. CASE Leaving(r)
      BY <2>1, <3>1 DEF Leaving, Tr!InProgress, Tr!Refuse, Tr!Finish, Tr!MergeNumbers, Tr!AtWork, Tr!Begun, Tr!Step, TradeTyped, TradeRequestsTyped
    <3>2. CASE TradeGoing(r)
      BY <2>1, <3>2 DEF TradeGoing, Tr!CheckLimits, Tr!CheckHoldings, Tr!Send, Tr!Answer, Tr!MergeSend, Tr!MergeDone, Tr!AtWork, Tr!Begun, Tr!Step,
                        TradeTyped, TradeRequestsTyped
    <3>3. CASE Engine(r)
      BY <3>3, EngineActs
    <3> QED BY <1>3, <3>1, <3>2, <3>3 DEF TradeAct
  <2> QED BY <1>1, <1>3, <2>1
<1> QED BY <1>2, <1>3
-------------------------------------------------------------------------------
(* The types *)

LEMMA TradeRequestsStep ==
    ASSUME TradeTyped, [Tr!Next]_(Tr!vars)
    PROVE  EventsTyped' /\ TradeRequestsTyped'
<1> USE DEF TradeTyped, EventsTyped, TradeRequestsTyped
<1>1. ASSUME NEW r \in Requests, TradeAct(r) PROVE EventsTyped' /\ TradeRequestsTyped'
  <2>1. pc' \in [Requests -> TradeSteps]
    BY <1>1, TradeGoes
  <2>2. data' \in [Requests -> Tr!Bodies \union {None}]
    BY <1>1, TradeActFrame, ArriveNew
  <2>3. pending' \subseteq Requests
    BY <1>1 DEF TradeAct, Arriving, Leaving, TradeGoing, Engine, Tr!Start, Tr!MergeRead, Tr!InProgress, Tr!Refuse, Tr!Finish, Tr!MergeNumbers,
                Tr!CheckLimits, Tr!CheckHoldings, Tr!Send, Tr!Answer, Tr!MergeSend, Tr!MergeDone, Tr!Buy, Tr!Sell, Tr!Cancel, Tr!Drop, Tr!Done
  <2>4. short' \subseteq Requests /\ open' \subseteq Requests
    <3>1. CASE Engine(r)
      BY <3>1 DEF Engine, Tr!Buy, Tr!Sell, Tr!Cancel, Tr!Drop
    <3> QED BY <1>1, <3>1, TradeActFrame DEF Tr!market
  <2>5. key' \in [Pair -> Requests \union {None}]
    BY <1>1, BodyFits DEF TradeAct, Arriving, Leaving, TradeGoing, Engine, Tr!Start, Tr!MergeRead, Tr!InProgress, Tr!Refuse, Tr!Finish, Tr!MergeNumbers,
                Tr!CheckLimits, Tr!CheckHoldings, Tr!Send, Tr!Answer, Tr!MergeSend, Tr!MergeDone, Tr!Buy, Tr!Sell, Tr!Cancel, Tr!Drop, Tr!Done, Tr!DelKey
  <2> QED BY <1>1, <2>1, <2>2, <2>3, <2>4, <2>5, TradeActFrame
<1>2. CASE ~\E r \in Requests : TradeAct(r)
  <2>1. key' \in [Pair -> Requests \union {None}]
    BY <1>2, OtherFrame DEF Tr!KeyExpire
  <2>2. open' \subseteq Requests
    BY <1>2, OtherFrame DEF Tr!Fill
  <2> QED BY <1>2, <2>1, <2>2, OtherFrame
<1> QED BY <1>1, <1>2

\* An open order's body is an order.
LEMMA OpenOrder ==
    ASSUME TradeTyped, NEW r \in open
    PROVE  r \in Requests /\ data[r] \in Tr!Bodies /\ Tr!IsOrder(r) /\ Tr!EventOf(r) \in Pair /\ data[r].amount \in Nat
BY BodyFits DEF TradeTyped, TradeRequestsTyped, BodiesFit, Tr!IsOrder, Tr!Is, Tr!EventOf

LEMMA MarketStep ==
    ASSUME TradeTyped, [Tr!Next]_(Tr!vars)
    PROVE  MarketTyped'
<1> USE DEF TradeTyped, MarketTyped
<1>1. ASSUME NEW r \in Requests, TradeAct(r) PROVE MarketTyped'
  <2>1. CASE Engine(r)
    <3>1. data[r] \in Tr!Bodies /\ Tr!EventOf(r) \in Pair /\ data[r].amount \in Nat
      BY <2>1, EngineActs, BodyFits
    <3>2. CASE Tr!Buy(r)
      BY <3>1, <3>2 DEF Tr!Buy
    <3>3. CASE Tr!Sell(r)
      BY <3>1, <3>3 DEF Tr!Sell
    <3>4. CASE Tr!Cancel(r)
      <4>1. data[r].target \in open
        BY <3>4 DEF Tr!Cancel
      <4>2. Tr!EventOf(data[r].target) \in Pair /\ data[data[r].target].amount \in Nat
        BY <4>1, OpenOrder
      <4> QED BY <3>4, <4>2 DEF Tr!Cancel
    <3>5. CASE Tr!Drop(r)
      BY <3>5 DEF Tr!Drop
    <3> QED BY <2>1, <3>2, <3>3, <3>4, <3>5 DEF Engine
  <2> QED BY <1>1, <2>1, TradeActFrame DEF Tr!market
<1>2. CASE ~\E r \in Requests : TradeAct(r)
  <2>1. shares' \in [Pair -> Nat]
    BY <1>2, OtherFrame, OpenOrder DEF Tr!Fill
  <2> QED BY <1>2, <2>1, OtherFrame
<1> QED BY <1>1, <1>2

\* A body that is there stays the kind it is.
LEMMA KindKept ==
    ASSUME TradeTyped, [Tr!Next]_(Tr!vars), NEW q \in Requests, data[q] # None
    PROVE  /\ \A types : Tr!Is(q, types)' <=> Tr!Is(q, types)
           /\ Tr!IsOrder(q)' <=> Tr!IsOrder(q)
           /\ Tr!EventOf(q)' = Tr!EventOf(q)
           /\ data'[q] = data[q] /\ data[q] \in Tr!Bodies /\ Tr!EventOf(q) \in Pair
<1>1. data'[q] = data[q]
  BY BodyKept
<1> QED BY <1>1, BodyFits DEF Tr!Is, Tr!IsOrder, Tr!EventOf, TradeTyped, TradeRequestsTyped

LEMMA BodiesStep ==
    ASSUME TradeTyped, [Tr!Next]_(Tr!vars)
    PROVE  BodiesFit'
<1>t. TradeRequestsTyped /\ BodiesFit
  BY DEF TradeTyped
<1>1. \A r \in Requests : (data[r] = None => pc[r] \in {"idle", "refused", "done"} /\ r \notin pending)'
  <2> SUFFICES ASSUME NEW r \in Requests, data'[r] = None
               PROVE  pc'[r] \in {"idle", "refused", "done"} /\ r \notin pending'
    OBVIOUS
  <2>1. data[r] = None
    BY BodyKept
  <2>2. pc[r] \in {"idle", "refused", "done"} /\ r \notin pending
    BY <1>t, <2>1 DEF BodiesFit
  <2>3. ASSUME NEW q \in Requests, TradeAct(q) PROVE pc'[r] \in {"idle", "refused", "done"} /\ r \notin pending'
    <3>1. CASE Arriving(q) /\ q = r
      BY <1>t, <3>1, ArriveNew, TradeAssumption DEF TradeRequestsTyped
    <3>2. CASE Leaving(q) /\ q = r
      BY <1>t, <2>2, <3>2 DEF Leaving, Tr!InProgress, Tr!Refuse, Tr!Finish, Tr!MergeNumbers, TradeRequestsTyped, Tr!Step
    <3>3. CASE TradeGoing(q) /\ q = r
      BY <1>t, <2>1, <2>2, <3>3 DEF TradeGoing, Tr!CheckLimits, Tr!CheckHoldings, Tr!Send, Tr!Answer, Tr!MergeSend, Tr!MergeDone, Tr!Step, TradeRequestsTyped
    <3>4. CASE Engine(q) /\ q = r
      BY <2>2, <3>4, EngineActs
    <3> QED BY <2>2, <2>3, <3>1, <3>2, <3>3, <3>4, TradeActFrame DEF TradeAct
  <2> QED BY <2>2, <2>3, OtherFrame
<1>2. \A r \in Requests : (pc[r] = "idle" => data[r] = None)'
  <2> SUFFICES ASSUME NEW r \in Requests, pc'[r] = "idle" PROVE data'[r] = None
    OBVIOUS
  <2>1. ASSUME NEW q \in Requests, TradeAct(q) PROVE data'[r] = None
    <3>1. pc[r] = "idle"
      BY <1>t, <2>1, TradeGoes DEF TradeRequestsTyped
    <3>2. ~(Arriving(q) /\ q = r)
      BY <1>t, ArriveNew DEF TradeRequestsTyped
    <3> QED BY <1>t, <2>1, <3>1, <3>2, TradeActFrame DEF BodiesFit
  <2> QED BY <1>t, <2>1, OtherFrame DEF BodiesFit
<1>3. \A r \in pending' : pc'[r] \notin Tr!Begun
  <2> SUFFICES ASSUME NEW r \in pending' PROVE pc'[r] \notin Tr!Begun
    OBVIOUS
  <2>0. r \in Requests
    BY TradeRequestsStep DEF TradeRequestsTyped
  <2>1. ASSUME NEW q \in Requests, TradeAct(q) PROVE pc'[r] \notin Tr!Begun
    <3>1. CASE q # r
      BY <1>t, <2>0, <2>1, <3>1, TradeActFrame DEF BodiesFit
    <3>2. CASE q = r /\ r \in pending
      <4>1. pc[r] \notin Tr!Begun
        BY <1>t, <3>2 DEF BodiesFit
      <4> QED BY <1>t, <2>1, <3>2, <4>1, ArriveNew DEF TradeAct, Leaving, TradeGoing, Engine, Tr!InProgress, Tr!Refuse, Tr!Finish, Tr!MergeNumbers,
                Tr!CheckLimits, Tr!CheckHoldings, Tr!Send, Tr!Answer, Tr!MergeSend, Tr!MergeDone, Tr!Buy, Tr!Sell, Tr!Cancel, Tr!Drop, Tr!Done, Tr!Step, Tr!Begun, TradeRequestsTyped
    <3>3. CASE q = r /\ r \notin pending
      <4>1. Tr!Send(r) \/ Tr!MergeSend(r)
        BY <2>1, <3>3, ArriveNew, EngineActs DEF TradeAct, Leaving, TradeGoing, Tr!InProgress, Tr!Refuse, Tr!Finish, Tr!MergeNumbers,
                Tr!CheckLimits, Tr!CheckHoldings, Tr!Answer, Tr!MergeDone
      <4> QED BY <1>t, <2>0, <4>1 DEF Tr!Send, Tr!MergeSend, Tr!Step, TradeRequestsTyped, Tr!Begun
    <3> QED BY <3>1, <3>2, <3>3
  <2> QED BY <1>t, <2>0, <2>1, OtherFrame DEF BodiesFit
<1>4. \A r \in open' \union short' : data'[r] # None
  <2> SUFFICES ASSUME NEW r \in open' \union short' PROVE data'[r] # None
    OBVIOUS
  <2>0. r \in Requests
    BY TradeRequestsStep DEF TradeRequestsTyped
  <2>1. CASE r \in open \union short
    BY <1>t, <2>0, <2>1, BodyKept DEF BodiesFit
  <2>2. CASE r \notin open \union short
    <3>1. ASSUME NEW q \in Requests, TradeAct(q) PROVE data'[r] # None
      <4>1. Engine(q)
        BY <2>2, <3>1, TradeActFrame DEF Tr!market
      <4>2. r = q
        BY <2>2, <4>1 DEF Engine, Tr!Buy, Tr!Sell, Tr!Cancel, Tr!Drop
      <4> QED BY <4>1, <4>2, EngineActs, BodyFits
    <3>2. CASE ~\E q \in Requests : TradeAct(q)
      BY <2>2, <3>2, OtherFrame DEF Tr!Fill
    <3> QED BY <3>1, <3>2
  <2> QED BY <2>1, <2>2
<1>5. \A r \in open' : data'[r].type = "order"
  <2> SUFFICES ASSUME NEW r \in open' PROVE data'[r].type = "order"
    OBVIOUS
  <2>0. r \in Requests
    BY TradeRequestsStep DEF TradeRequestsTyped
  <2>1. CASE r \in open
    BY <1>t, <2>0, <2>1, BodyKept DEF BodiesFit
  <2>2. CASE r \notin open
    <3>1. ASSUME NEW q \in Requests, TradeAct(q) PROVE data'[r].type = "order"
      <4>1. Engine(q)
        BY <2>2, <3>1, TradeActFrame DEF Tr!market
      <4>2. r = q /\ Tr!IsOrder(q)
        BY <2>2, <4>1 DEF Engine, Tr!Buy, Tr!Sell, Tr!Cancel, Tr!Drop
      <4> QED BY <4>1, <4>2, EngineActs DEF Tr!IsOrder, Tr!Is
    <3>2. CASE ~\E q \in Requests : TradeAct(q)
      BY <2>2, <3>2, OtherFrame DEF Tr!Fill
    <3> QED BY <3>1, <3>2
  <2> QED BY <2>1, <2>2
<1>6. \A r \in Requests : (pc[r] \in {"guarded", "allowed"} => ~Tr!Is(r, {"merge"}))'
  <2> SUFFICES ASSUME NEW r \in Requests, pc'[r] \in {"guarded", "allowed"} PROVE ~Tr!Is(r, {"merge"})'
    OBVIOUS
  <2>1. CASE data[r] # None /\ pc[r] \in {"guarded", "allowed"}
    BY <1>t, <2>1, KindKept DEF BodiesFit
  <2>2. CASE ~(data[r] # None /\ pc[r] \in {"guarded", "allowed"})
    <3>1. pc[r] \notin {"guarded", "allowed"}
      BY <1>t, <2>2 DEF BodiesFit
    <3>2. PICK q \in Requests : TradeAct(q)
      BY <3>1, OtherFrame
    <3>3. q = r
      BY <3>1, <3>2, TradeActFrame
    <3>4. Tr!Start(r)
      BY <1>t, <3>1, <3>2, <3>3 DEF TradeAct, Arriving, Leaving, TradeGoing, Engine, Tr!MergeRead, Tr!InProgress, Tr!Refuse, Tr!Finish, Tr!MergeNumbers,
                Tr!CheckLimits, Tr!CheckHoldings, Tr!Send, Tr!Answer, Tr!MergeSend, Tr!MergeDone, Tr!Buy, Tr!Sell, Tr!Cancel, Tr!Drop, Tr!Done, Tr!Step, TradeRequestsTyped
    <3>5. PICK d \in Tr!Bodies : data' = [data EXCEPT ![r] = d] /\ d \notin Tr!Merges
      BY <3>4, ArriveNew DEF Arriving
    <3>6. data'[r] = d
      BY <1>t, <3>5 DEF TradeRequestsTyped
    <3> QED BY <3>5, <3>6, BodyFits DEF Tr!Is
  <2> QED BY <2>1, <2>2
<1>7. \A r \in Requests : (Tr!IsOrder(r) /\ data[r].claim < data[r].amount => Tr!EventOf(r) \in unclear)'
  <2> SUFFICES ASSUME NEW r \in Requests, Tr!IsOrder(r)', data'[r].claim < data'[r].amount PROVE Tr!EventOf(r)' \in unclear'
    OBVIOUS
  <2>0. unclear \subseteq unclear'
    BY TradeActFrame, OtherFrame
  <2>1. CASE data[r] # None
    BY <1>t, <2>0, <2>1, KindKept DEF BodiesFit
  <2>2. CASE data[r] = None
    <3>1. data'[r] # None
      BY DEF Tr!IsOrder, Tr!Is
    <3>2. PICK q \in Requests : TradeAct(q)
      BY <2>2, <3>1, OtherFrame
    <3>3. q = r /\ Arriving(r)
      BY <2>2, <3>1, <3>2, TradeActFrame
    <3>4. PICK d \in Tr!Bodies : data' = [data EXCEPT ![r] = d] /\ Tr!Arrive(r, d)
      BY <3>3, ArriveNew
    <3>5. data'[r] = d
      BY <1>t, <3>4 DEF TradeRequestsTyped
    <3> QED BY <3>4, <3>5 DEF Tr!Arrive, Tr!IsOrder, Tr!Is, Tr!EventOf
  <2> QED BY <2>1, <2>2
<1> QED BY <1>1, <1>2, <1>3, <1>4, <1>5, <1>6, <1>7 DEF BodiesFit

LEMMA CancelsStep ==
    ASSUME TradeTyped, [Tr!Next]_(Tr!vars)
    PROVE  CancelsFit'
<1>t. TradeRequestsTyped /\ BodiesFit /\ CancelsFit
  BY DEF TradeTyped
<1> SUFFICES ASSUME NEW r \in Requests, Tr!Is(r, {"cancel"})', pc'[r] = "checked" \/ r \in pending'
             PROVE  data'[r].target \in Requests /\ data'[data'[r].target] # None
                    /\ Tr!EventOf(data[r].target)' = Tr!EventOf(r)'
  BY DEF CancelsFit
<1>1. CASE data[r] # None /\ (pc[r] = "checked" \/ r \in pending)
  <2>1. Tr!Is(r, {"cancel"}) /\ data'[r] = data[r] /\ Tr!EventOf(r)' = Tr!EventOf(r)
    BY <1>1, KindKept
  <2>2. data[r].target \in Requests /\ data[data[r].target] # None /\ Tr!EventOf(data[r].target) = Tr!EventOf(r)
    BY <1>t, <1>1, <2>1 DEF CancelsFit
  <2>3. data'[data[r].target] = data[data[r].target]
    BY <2>2, BodyKept
  <2> QED BY <2>1, <2>2, <2>3 DEF Tr!EventOf
<1>2. CASE ~(data[r] # None /\ (pc[r] = "checked" \/ r \in pending))
  <2>1. ~(pc[r] = "checked" \/ r \in pending)
    BY <1>t, <1>2 DEF BodiesFit
  <2>2. PICK q \in Requests : TradeAct(q)
    BY <2>1, OtherFrame
  <2>3. q = r
    BY <2>1, <2>2, TradeActFrame
  <2>4. Tr!MergeRead(r) \/ Tr!CheckHoldings(r)
    BY <1>t, <2>1, <2>2, <2>3 DEF TradeAct, Arriving, Leaving, TradeGoing, Engine, Tr!Start, Tr!InProgress, Tr!Refuse, Tr!Finish, Tr!MergeNumbers,
              Tr!CheckLimits, Tr!Send, Tr!Answer, Tr!MergeSend, Tr!MergeDone, Tr!Buy, Tr!Sell, Tr!Cancel, Tr!Drop, Tr!Done, Tr!Step, TradeRequestsTyped
  <2>5. CASE Tr!MergeRead(r) /\ ~Tr!Start(r)
    <3>1. PICK d \in Tr!Merges : data' = [data EXCEPT ![r] = d]
      BY <2>5 DEF Tr!MergeRead, Tr!Arrive
    <3>2. data'[r] = d
      BY <1>t, <3>1 DEF TradeRequestsTyped
    <3> QED BY <3>1, <3>2 DEF Tr!Merges, Tr!Body, Tr!Is
  <2>6. CASE Tr!CheckHoldings(r)
    <3>1. data' = data /\ pc[r] = "allowed"
      BY <2>6 DEF Tr!CheckHoldings, Tr!Step
    <3>2. Tr!Is(r, {"cancel"})
      BY <3>1 DEF Tr!Is
    <3>3. data[r].target \in open /\ Tr!EventOf(data[r].target) = Tr!EventOf(r)
      BY <2>6, <3>2 DEF Tr!CheckHoldings, Tr!HasOpenPosition
    <3>4. data[r].target \in Requests /\ data[data[r].target] # None
      BY <1>t, <3>3 DEF TradeRequestsTyped, BodiesFit
    <3> QED BY <3>1, <3>3, <3>4 DEF Tr!EventOf
  <2>7. CASE Tr!Start(r)
    BY <1>t, <2>1, <2>7 DEF Tr!Start, Tr!Step, TradeRequestsTyped
  <2> QED BY <2>4, <2>5, <2>6, <2>7
<1> QED BY <1>1, <1>2

LEMMA TradeTypedStep ==
    ASSUME TradeTyped, [Tr!Next]_(Tr!vars)
    PROVE  TradeTyped'
BY TradeRequestsStep, MarketStep, BodiesStep, CancelsStep DEF TradeTyped
-------------------------------------------------------------------------------
(* One request at work on an event *)

TradeInv ==
    /\ TradeTyped
    /\ OneAtWork /\ KnownTogether
    /\ AllowedHold /\ RoomForEvent /\ HoldingsHold

\* A request at work has a body.
LEMMA AtWorkHas ==
    ASSUME TradeTyped, NEW r \in Tr!AtWork
    PROVE  r \in Requests /\ data[r] \in Tr!Bodies /\ data[r] # None /\ Tr!EventOf(r) \in Pair /\ r \in Tr!Working(Tr!EventOf(r))
<1>1. r \in Requests /\ data[r] # None
  BY DEF TradeTyped, TradeRequestsTyped, BodiesFit, Tr!AtWork, Tr!Begun
<1> QED BY <1>1, BodyFits DEF TradeTyped, TradeRequestsTyped, Tr!EventOf, Tr!Working

\* What was at work on an event, and is, but for what arrives
LEMMA WorkingStep ==
    ASSUME TradeTyped, [Tr!Next]_(Tr!vars), NEW e \in Pair, NEW q \in Tr!Working(e)',
           ~(Arriving(q) /\ Tr!EventOf(q)' = e)
    PROVE  q \in Requests /\ q \in Tr!Working(e) /\ q \in Tr!AtWork /\ Tr!EventOf(q)' = Tr!EventOf(q) /\ data'[q] = data[q]
<1>1. q \in Requests /\ q \in Tr!AtWork' /\ Tr!EventOf(q)' = e
  BY DEF Tr!Working, Tr!AtWork
<1>2. q \in Tr!AtWork
  <2>1. ASSUME NEW r \in Requests, TradeAct(r) PROVE q \in Tr!AtWork
    BY <1>1, <2>1, WorkBegins
  <2>2. CASE ~\E r \in Requests : TradeAct(r)
    BY <1>1, <2>2, OtherFrame DEF Tr!AtWork
  <2> QED BY <2>1, <2>2
<1>3. data[q] # None
  BY <1>2, AtWorkHas
<1> QED BY <1>1, <1>2, <1>3, KindKept DEF Tr!Working

LEMMA LostGrows ==
    ASSUME TradeTyped, [Tr!Next]_(Tr!vars)
    PROVE  lost \subseteq lost' /\ together \subseteq together' /\ unclear \subseteq unclear'
           /\ private' = private /\ custom' = custom /\ editable' = editable
BY TradeActFrame, OtherFrame

LEMMA OneStep ==
    ASSUME TradeTyped, OneAtWork, [Tr!Next]_(Tr!vars)
    PROVE  OneAtWork'
<1> SUFFICES ASSUME NEW e \in Pair \ lost'
             PROVE  /\ \A q, r \in Tr!Working(e)' : q = r
                    /\ \A r \in Tr!Working(e)' : key'[e] = r \/ (Tr!Is(r, {"merge"})' /\ pc'[r] = "checked")
  BY DEF OneAtWork
<1>0. e \in Pair \ lost
  BY LostGrows
<1>o. /\ \A q, r \in Tr!Working(e) : q = r
      /\ \A r \in Tr!Working(e) : key[e] = r \/ (Tr!Is(r, {"merge"}) /\ pc[r] = "checked")
  BY <1>0 DEF OneAtWork
<1>t. TradeRequestsTyped /\ BodiesFit
  BY DEF TradeTyped
<1>1. ASSUME NEW r \in Requests, Arriving(r), Tr!EventOf(r)' = e
      PROVE  /\ \A q, p \in Tr!Working(e)' : q = p
             /\ \A q \in Tr!Working(e)' : key'[e] = q \/ (Tr!Is(q, {"merge"})' /\ pc'[q] = "checked")
  <2>1. PICK d \in Tr!Bodies :
             /\ data' = [data EXCEPT ![r] = d] /\ Tr!Arrive(r, d)
             /\ IF Tr!Start(r) THEN pc' = [pc EXCEPT ![r] = "guarded"] /\ d \notin Tr!Merges
                ELSE pc' = [pc EXCEPT ![r] = "checked"] /\ d \in Tr!Merges
    BY <1>1, ArriveNew
  <2>2. data'[r] = d /\ d.event = e
    BY <1>t, <1>1, <2>1 DEF TradeRequestsTyped, Tr!EventOf
  <2>3. Tr!Working(e) = {}
    <3>1. CASE Tr!Start(r)
      <4>1. PICK b \in Tr!Orders \union Tr!Sells \union Tr!Cancels :
                /\ key[b.event] = None /\ Tr!Arrive(r, b)
                /\ lost' = IF \E q \in Tr!Working(b.event) : Tr!Is(q, {"merge"}) THEN lost \union {b.event} ELSE lost
        BY <3>1 DEF Tr!Start
      <4>2. b.event = e
        BY <1>t, <1>1, <4>1 DEF Tr!Arrive, Tr!EventOf, TradeRequestsTyped
      <4>3. ~\E q \in Tr!Working(e) : Tr!Is(q, {"merge"})
        BY <4>1, <4>2
      <4>4. \A q \in Tr!Working(e) : q # None
        BY TradeAssumption DEF Tr!Working, Tr!AtWork
      <4> QED BY <1>o, <4>1, <4>2, <4>3, <4>4
    <3>2. CASE Tr!MergeRead(r)
      <4>1. PICK b \in Tr!Merges : Tr!Arrive(r, b) /\ lost' = IF Tr!Working(b.event) # {} THEN lost \union {b.event} ELSE lost
        BY <3>2 DEF Tr!MergeRead
      <4>2. b.event = e
        BY <1>t, <1>1, <4>1 DEF Tr!Arrive, Tr!EventOf, TradeRequestsTyped
      <4> QED BY <4>1, <4>2
    <3> QED BY <1>1, <3>1, <3>2 DEF Arriving
  <2>4. \A q \in Tr!Working(e)' : q = r
    <3> SUFFICES ASSUME NEW q \in Tr!Working(e)', q # r PROVE FALSE
      OBVIOUS
    <3>1. q \in Requests
      BY DEF Tr!Working, Tr!AtWork
    <3>2. ~(Arriving(q) /\ Tr!EventOf(q)' = e)
      <4>1. pc'[q] = pc[q]
        BY <1>1, <3>1, TradeActFrame DEF TradeAct
      <4>2. Arriving(q) => pc[q] = "idle" /\ pc'[q] # "idle"
        BY <1>t, <3>1, ArriveNew DEF TradeRequestsTyped
      <4> QED BY <4>1, <4>2
    <3> QED BY <2>3, <3>2, WorkingStep
  <2>5. key'[e] = r \/ (Tr!Is(r, {"merge"})' /\ pc'[r] = "checked")
    <3>1. CASE Tr!Start(r)
      <4>1. PICK b \in Tr!Orders \union Tr!Sells \union Tr!Cancels :
                Tr!Arrive(r, b) /\ key' = [key EXCEPT ![b.event] = r]
        BY <3>1 DEF Tr!Start
      <4>2. b.event = e
        BY <1>t, <1>1, <4>1 DEF Tr!Arrive, Tr!EventOf, TradeRequestsTyped
      <4> QED BY <1>t, <4>1, <4>2 DEF TradeRequestsTyped
    <3>2. CASE ~Tr!Start(r)
      BY <1>t, <2>1, <2>2, <3>2, BodyFits DEF Tr!Is, TradeRequestsTyped
    <3> QED BY <3>1, <3>2
  <2> QED BY <2>4, <2>5
<1>2. ASSUME ~\E r \in Requests : Arriving(r) /\ Tr!EventOf(r)' = e
      PROVE  /\ \A q, r \in Tr!Working(e)' : q = r
             /\ \A r \in Tr!Working(e)' : key'[e] = r \/ (Tr!Is(r, {"merge"})' /\ pc'[r] = "checked")
  <2>1. \A q \in Tr!Working(e)' : q \in Requests /\ q \in Tr!Working(e) /\ q \in Tr!AtWork
                               /\ Tr!EventOf(q)' = Tr!EventOf(q) /\ data'[q] = data[q]
    <3>1. \A q \in Tr!Working(e)' : q \in Requests
      BY DEF Tr!Working, Tr!AtWork
    <3> QED BY <1>2, <3>1, WorkingStep
  <2>2. \A q, r \in Tr!Working(e)' : q = r
    BY <1>o, <2>1
  <2>3. ASSUME NEW q \in Tr!Working(e)' PROVE key'[e] = q \/ (Tr!Is(q, {"merge"})' /\ pc'[q] = "checked")
    <3>0. q \in Requests /\ q \in Tr!Working(e) /\ q \in Tr!AtWork /\ Tr!EventOf(q) = e /\ Tr!EventOf(q)' = Tr!EventOf(q) /\ data'[q] = data[q]
          /\ q \in Tr!AtWork'
      BY <2>1, <2>3 DEF Tr!Working
    <3>i. \A types : Tr!Is(q, types)' <=> Tr!Is(q, types)
      BY <3>0 DEF Tr!Is
    <3>k. key[e] = q \/ (Tr!Is(q, {"merge"}) /\ pc[q] = "checked")
      BY <1>o, <3>0
    <3>1. CASE key' = key /\ pc'[q] = pc[q]
      BY <3>1, <3>i, <3>k
    <3>2. ASSUME NEW r \in Requests, TradeAct(r) PROVE key'[e] = q \/ (Tr!Is(q, {"merge"})' /\ pc'[q] = "checked")
      <4>1. CASE Arriving(r)
        <5>1. r # q
          BY <3>0, <4>1, WorkBegins, <3>2
        <5>2. Tr!EventOf(r)' # e
          BY <1>2, <4>1
        <5>3. key'[e] = key[e]
          <6>1. CASE Tr!Start(r)
            <7>1. PICK b \in Tr!Orders \union Tr!Sells \union Tr!Cancels : Tr!Arrive(r, b) /\ key' = [key EXCEPT ![b.event] = r]
              BY <6>1 DEF Tr!Start
            <7>2. b.event # e
              BY <1>t, <5>2, <7>1 DEF Tr!Arrive, Tr!EventOf, TradeRequestsTyped
            <7> QED BY <1>t, <7>1, <7>2 DEF TradeRequestsTyped
          <6> QED BY <4>1, <6>1 DEF Arriving, Tr!MergeRead
        <5> QED BY <3>0, <3>2, <3>i, <3>k, <5>1, <5>3, TradeActFrame
      <4>2. CASE Tr!InProgress(r)
        <5>1. q # r
          BY <1>t, <3>0, <4>2, AtWorkHas DEF Tr!InProgress, Tr!Step, BodiesFit
        <5>2. pc'[q] = pc[q]
          BY <3>0, <3>2, <5>1, TradeActFrame
        <5>3. PICK f \in Pair : /\ key' = [key EXCEPT ![f] = None]
                                  /\ lost' = IF key[f] \in Tr!AtWork THEN lost \union {f} ELSE lost
          BY <4>2 DEF Tr!InProgress
        <5>4. key[f] = q => f # e
          BY <3>0, <5>3
        <5> QED BY <1>t, <3>i, <3>k, <5>2, <5>3, <5>4 DEF TradeRequestsTyped
      <4>3. CASE Tr!Refuse(r) \/ Tr!Finish(r)
        <5>1. Tr!DelKey(r) /\ pending' = pending /\ data' = data
              /\ (pc' = [pc EXCEPT ![r] = "refused"] \/ pc' = [pc EXCEPT ![r] = "done"])
          BY <4>3 DEF Tr!Refuse, Tr!Finish, Tr!Step
        <5>2. data[r] # None
          BY <1>t, <4>3 DEF Tr!Refuse, Tr!Finish, Tr!Step, BodiesFit, Tr!Begun
        <5>3. Tr!EventOf(r) \in Pair
          BY <1>t, <5>2, BodyFits DEF TradeRequestsTyped, Tr!EventOf
        <5>4. key' = [key EXCEPT ![Tr!EventOf(r)] = None]
              /\ lost' = IF key[Tr!EventOf(r)] \in (Tr!AtWork \ {r}) \union (pending \intersect {r})
                         THEN lost \union {Tr!EventOf(r)} ELSE lost
          BY <5>1 DEF Tr!DelKey
        <5>5. q \in (Tr!AtWork \ {r}) \union (pending \intersect {r})
          BY <1>t, <3>0, <5>1 DEF Tr!AtWork, TradeRequestsTyped, Tr!Begun
        <5>6. key[Tr!EventOf(r)] = q => Tr!EventOf(r) # e
          BY <5>4, <5>5
        <5>7. pc'[q] = pc[q] \/ (q = r /\ key[e] = q)
          <6>1. CASE q = r
            <7>1. pc[q] # "checked"
              BY <1>t, <5>5, <6>1 DEF BodiesFit, Tr!Begun
            <7> QED BY <3>k, <6>1, <7>1
          <6> QED BY <1>t, <3>0, <5>1, <6>1 DEF TradeRequestsTyped
        <5> QED BY <1>t, <3>0, <3>i, <3>k, <5>3, <5>4, <5>6, <5>7 DEF TradeRequestsTyped
      <4>4. CASE Tr!MergeNumbers(r)
        <5>1. q # r
          BY <1>t, <3>0, <4>4, AtWorkHas DEF Tr!MergeNumbers, Tr!Step, BodiesFit
        <5> QED BY <3>0, <3>1, <3>2, <4>4, <5>1, TradeActFrame DEF Tr!MergeNumbers
      <4>5. CASE TradeGoing(r)
        <5>1. CASE Tr!MergeSend(r) /\ Tr!EventOf(r) = e
          <6>1. r \in Tr!AtWork /\ r \in Tr!Working(e)
            BY <5>1 DEF Tr!MergeSend, Tr!Step, Tr!AtWork, Tr!Begun, Tr!Working
          <6>2. r = q
            BY <1>o, <3>0, <6>1
          <6> QED BY <1>t, <5>1, <6>2 DEF Tr!MergeSend, TradeRequestsTyped
        <5>2. CASE ~(Tr!MergeSend(r) /\ Tr!EventOf(r) = e)
          <6>1. key'[e] = key[e]
            BY <1>t, <4>5, <5>2 DEF TradeGoing, Tr!CheckLimits, Tr!CheckHoldings, Tr!Send, Tr!Answer, Tr!MergeSend, Tr!MergeDone, TradeRequestsTyped
          <6>2. CASE q # r
            BY <3>0, <3>2, <3>i, <3>k, <6>1, <6>2, TradeActFrame
          <6>3. CASE q = r
            <7>1. CASE key[e] = q
              BY <6>1, <7>1
            <7>2. CASE Tr!Is(q, {"merge"}) /\ pc[q] = "checked"
              BY <1>t, <3>0, <4>5, <5>2, <6>3, <7>2 DEF TradeGoing, Tr!CheckLimits, Tr!CheckHoldings, Tr!Send, Tr!Answer, Tr!MergeSend, Tr!MergeDone, Tr!Step
            <7> QED BY <3>k, <7>1, <7>2
          <6> QED BY <6>2, <6>3
        <5> QED BY <5>1, <5>2
      <4>6. CASE Engine(r)
        <5>1. r \in pending /\ pc' = pc /\ r \notin Tr!AtWork' /\ q # r
          BY <3>0, <4>6, EngineActs
        <5>2. Tr!EventOf(r) # e
          <6>1. r \in Tr!AtWork
            BY <5>1 DEF Tr!AtWork
          <6> QED BY <1>o, <3>0, <5>1, <6>1 DEF Tr!Working
        <5>3. key'[e] = key[e]
          BY <1>t, <4>6, <5>2 DEF Engine, Tr!Buy, Tr!Sell, Tr!Cancel, Tr!Drop, Tr!Done, TradeRequestsTyped
        <5> QED BY <3>i, <3>k, <5>1, <5>3
      <4> QED BY <3>2, <4>1, <4>2, <4>3, <4>4, <4>5, <4>6 DEF TradeAct, Leaving
    <3>3. CASE ~\E r \in Requests : TradeAct(r)
      <4>1. CASE \E f \in Pair : Tr!KeyExpire(f)
        <5>1. PICK f \in Pair : /\ key' = [key EXCEPT ![f] = None]
                                  /\ lost' = IF key[f] \in Tr!AtWork THEN lost \union {f} ELSE lost
          BY <4>1 DEF Tr!KeyExpire
        <5>2. key[f] = q => f # e
          BY <3>0, <5>1
        <5>3. pc' = pc
          BY <3>3, OtherFrame
        <5> QED BY <1>t, <3>i, <3>k, <5>1, <5>2, <5>3 DEF TradeRequestsTyped
      <4> QED BY <3>1, <3>3, <4>1, OtherFrame
    <3> QED BY <3>2, <3>3
  <2> QED BY <2>2, <2>3
<1> QED BY <1>1, <1>2
-------------------------------------------------------------------------------
(* What was checked holds until the engine takes the request *)

LEMMA TogetherStep ==
    ASSUME TradeTyped, KnownTogether, [Tr!Next]_(Tr!vars)
    PROVE  KnownTogether'
<1>t. TradeRequestsTyped
  BY DEF TradeTyped
<1>1. ASSUME NEW r \in Requests, Arriving(r) PROVE KnownTogether'
  <2>1. PICK d \in Tr!Bodies : data' = [data EXCEPT ![r] = d] /\ Tr!Arrive(r, d)
    BY <1>1, ArriveNew
  <2>2. data'[r] = d /\ \A q \in Requests \ {r} : data'[q] = data[q]
    BY <1>t, <2>1 DEF TradeRequestsTyped
  <2>3. r \notin Tr!AtWork /\ \A q \in Requests \ {r} : q \in Tr!AtWork' <=> q \in Tr!AtWork
    BY <1>1, WorkBegins DEF TradeAct
  <2>4. together \subseteq together'
    BY LostGrows
  <2>5. \A q \in Tr!AtWork : Tr!EventOf(q) # d.event => q \in together' /\ r \in together'
    BY <2>1 DEF Tr!Arrive
  <2>6. \A q \in Tr!AtWork' : q \in Requests
    BY DEF Tr!AtWork
  <2> SUFFICES ASSUME NEW q \in Tr!AtWork', NEW p \in Tr!AtWork', Tr!EventOf(q)' # Tr!EventOf(p)'
               PROVE  q \in together' /\ p \in together'
    BY DEF KnownTogether
  <2>7. CASE q = r
    BY <2>2, <2>3, <2>5, <2>6, <2>7 DEF Tr!EventOf
  <2>8. CASE p = r
    BY <2>2, <2>3, <2>5, <2>6, <2>8 DEF Tr!EventOf
  <2>9. CASE q # r /\ p # r
    BY <2>2, <2>3, <2>4, <2>6, <2>9 DEF Tr!EventOf, KnownTogether
  <2> QED BY <2>7, <2>8, <2>9
<1>2. CASE ~\E r \in Requests : Arriving(r)
  <2> SUFFICES ASSUME NEW q \in Tr!AtWork', NEW p \in Tr!AtWork', Tr!EventOf(q)' # Tr!EventOf(p)'
               PROVE  q \in together' /\ p \in together'
    BY DEF KnownTogether
  <2>1. \A x \in Tr!AtWork' : x \in Tr!AtWork /\ data'[x] = data[x]
    <3> SUFFICES ASSUME NEW x \in Tr!AtWork' PROVE x \in Tr!AtWork /\ data'[x] = data[x]
      OBVIOUS
    <3>1. x \in Requests
      BY DEF Tr!AtWork
    <3>2. x \in Tr!AtWork
      <4>1. ASSUME NEW r \in Requests, TradeAct(r) PROVE x \in Tr!AtWork
        BY <1>2, <3>1, <4>1, WorkBegins
      <4>2. CASE ~\E r \in Requests : TradeAct(r)
        BY <4>2, OtherFrame DEF Tr!AtWork
      <4> QED BY <4>1, <4>2
    <3> QED BY <3>1, <3>2, AtWorkHas, BodyKept
  <2> QED BY <2>1, LostGrows DEF KnownTogether, Tr!EventOf
<1> QED BY <1>1, <1>2

\* Nobody else is at work on a request's event.
LEMMA Alone ==
    ASSUME TradeTyped, OneAtWork, NEW r \in Tr!AtWork, NEW q \in Tr!AtWork, Tr!EventOf(r) = Tr!EventOf(q), Tr!EventOf(r) \notin lost
    PROVE  q = r
BY AtWorkHas DEF OneAtWork

\* Orders are placed and canceled by the engine, for a request of their event.
LEMMA OrdersFrame ==
    ASSUME TradeTyped, [Tr!Next]_(Tr!vars), NEW e \in Pair,
           \A r \in Requests : Engine(r) => Tr!EventOf(r) # e
    PROVE  orders'[e] = orders[e] /\ canceled'[e] = canceled[e] /\ bought'[e] = bought[e]
<1>1. ASSUME NEW r \in Requests, Engine(r)
      PROVE  orders'[e] = orders[e] /\ canceled'[e] = canceled[e] /\ bought'[e] = bought[e]
  <2>1. Tr!EventOf(r) # e /\ Tr!EventOf(r) \in Pair
    BY <1>1, EngineActs
  <2>2. CASE Tr!Cancel(r)
    <3>1. r \in pending
      BY <1>1, EngineActs
    <3>2. Tr!EventOf(data[r].target) = Tr!EventOf(r)
      BY <2>2, <3>1 DEF Tr!Cancel, TradeTyped, TradeRequestsTyped, CancelsFit
    <3> QED BY <2>1, <2>2, <3>2 DEF Tr!Cancel, TradeTyped, MarketTyped
  <2> QED BY <1>1, <2>1, <2>2 DEF Engine, Tr!Buy, Tr!Sell, Tr!Drop, TradeTyped, MarketTyped
<1>2. ASSUME NEW r \in Requests, TradeAct(r), ~Engine(r)
      PROVE  orders'[e] = orders[e] /\ canceled'[e] = canceled[e] /\ bought'[e] = bought[e]
  BY <1>2, TradeActFrame DEF Tr!market
<1> QED BY <1>1, <1>2, OtherFrame

\* An order that has passed the limits passed them now, or before.
LEMMA PassedStep ==
    ASSUME TradeTyped, [Tr!Next]_(Tr!vars), NEW r \in Requests, Passed(r)'
    PROVE  /\ data[r] \in Tr!Bodies /\ data'[r] = data[r] /\ Tr!EventOf(r)' = Tr!EventOf(r) /\ Tr!IsOrder(r)
           /\ Passed(r) \/ (Tr!CheckLimits(r) /\ UNCHANGED Tr!market)
           /\ ~Engine(r) /\ r \in Tr!AtWork'
<1>t. TradeRequestsTyped /\ BodiesFit
  BY DEF TradeTyped
<1>0. r \in Tr!AtWork'
  BY DEF Passed, Tr!AtWork, Tr!Begun
<1>1. ~Engine(r)
  BY <1>0, EngineActs
<1>2. data[r] # None
  <2>1. ASSUME data[r] = None PROVE FALSE
    <3>1. PICK q \in Requests : TradeAct(q)
      BY <2>1, OtherFrame DEF Passed, Tr!IsOrder, Tr!Is
    <3>2. q = r /\ Arriving(r)
      BY <2>1, <3>1, TradeActFrame DEF Passed, Tr!IsOrder, Tr!Is
    <3>3. PICK d \in Tr!Bodies :
             /\ data' = [data EXCEPT ![r] = d]
             /\ IF Tr!Start(r) THEN pc' = [pc EXCEPT ![r] = "guarded"] /\ d \notin Tr!Merges
                ELSE pc' = [pc EXCEPT ![r] = "checked"] /\ d \in Tr!Merges
      BY <3>2, ArriveNew
    <3>4. r \notin pending'
      BY <3>2, ArriveNew
    <3>5. ~Tr!Start(r) => data'[r].type = "merge"
      BY <1>t, <3>3, BodyFits DEF TradeRequestsTyped
    <3> QED BY <1>t, <3>3, <3>4, <3>5 DEF Passed, Tr!IsOrder, Tr!Is, TradeRequestsTyped
  <2> QED BY <2>1
<1>3. data[r] \in Tr!Bodies /\ data'[r] = data[r] /\ Tr!EventOf(r)' = Tr!EventOf(r) /\ Tr!IsOrder(r)
  BY <1>2, KindKept DEF Passed
<1>4. ASSUME ~Passed(r) PROVE Tr!CheckLimits(r) /\ UNCHANGED Tr!market
  <2>1. pc[r] \notin {"allowed", "checked"} /\ r \notin pending
    BY <1>3, <1>4 DEF Passed
  <2>2. PICK q \in Requests : TradeAct(q)
    BY <2>1, OtherFrame DEF Passed
  <2>3. q = r
    BY <2>1, <2>2, TradeActFrame DEF Passed
  <2>4. ~Arriving(r)
    BY <1>2, ArriveNew
  <2> QED BY <1>t, <1>1, <2>1, <2>2, <2>3, <2>4 DEF Passed, TradeAct, Leaving, TradeGoing, Tr!InProgress, Tr!Refuse, Tr!Finish, Tr!MergeNumbers,
              Tr!CheckLimits, Tr!CheckHoldings, Tr!Send, Tr!Answer, Tr!MergeSend, Tr!MergeDone, Tr!Step, TradeRequestsTyped
<1> QED BY <1>0, <1>1, <1>3, <1>4

LEMMA AllowedStep ==
    ASSUME TradeTyped, OneAtWork, AllowedHold, [Tr!Next]_(Tr!vars)
    PROVE  AllowedHold'
<1> SUFFICES ASSUME NEW r \in Requests, Passed(r)', Tr!EventOf(r)' \notin lost' PROVE StillAllowed(r)'
  BY DEF AllowedHold
<1>1. /\ data[r] \in Tr!Bodies /\ data'[r] = data[r] /\ Tr!EventOf(r)' = Tr!EventOf(r) /\ Tr!IsOrder(r)
      /\ Passed(r) \/ (Tr!CheckLimits(r) /\ UNCHANGED Tr!market)
      /\ ~Engine(r) /\ r \in Tr!AtWork'
  BY PassedStep
<1> DEFINE e == Tr!EventOf(r)
<1>2. e \in Pair /\ e \notin lost /\ private' = private /\ custom' = custom
  BY <1>1, BodyFits, LostGrows DEF Tr!EventOf
<1>3. CASE Passed(r)
  <2>1. StillAllowed(r)
    BY <1>2, <1>3 DEF AllowedHold
  <2>2. r \in Tr!AtWork
    BY <1>3 DEF Passed, Tr!AtWork, Tr!Begun
  <2>3. ASSUME NEW q \in Requests, Engine(q) PROVE Tr!EventOf(q) # e
    <3>1. q \in Tr!AtWork
      BY <2>3, EngineActs DEF Tr!AtWork
    <3> QED BY <1>1, <1>2, <2>2, <2>3, <3>1, Alone
  <2>4. orders'[e] = orders[e] /\ canceled'[e] = canceled[e] /\ bought'[e] = bought[e]
    BY <1>2, <2>3, OrdersFrame
  <2> QED BY <1>1, <1>2, <2>1, <2>4 DEF StillAllowed
<1>4. CASE Tr!CheckLimits(r) /\ UNCHANGED Tr!market
  <2>1. Tr!MayBuy(r)
    BY <1>1, <1>4 DEF Tr!CheckLimits
  <2>2. /\ e \in private \ custom => ~(orders[e] > 0)
        /\ e \in custom /\ orders[e] > 0 => orders[e] - canceled[e] < RetentionLimit
        /\ bought[e] + data[r].claim <= MaxTradeAmount
    BY <1>2, <2>1 DEF Tr!MayBuy, Tr!Traded, Tr!TradeCount, Tr!TotalBuy
  <2>3. orders[e] \in Nat
    BY <1>2 DEF TradeTyped, MarketTyped
  <2> QED BY <1>1, <1>2, <1>4, <2>2, <2>3 DEF StillAllowed, Tr!market
<1> QED BY <1>1, <1>3, <1>4

LEMMA RoomStep ==
    ASSUME TradeTyped, OneAtWork, KnownTogether, RoomForEvent, [Tr!Next]_(Tr!vars)
    PROVE  RoomForEvent'
<1> SUFFICES ASSUME lost' = {}, together' = {},
                    NEW r \in Requests, Passed(r)', Tr!EventOf(r)' \in private' \ custom'
             PROVE  Cardinality(Tr!Traded \intersect private)' < PrivateLimit
  BY DEF RoomForEvent
<1>1. /\ data[r] \in Tr!Bodies /\ data'[r] = data[r] /\ Tr!EventOf(r)' = Tr!EventOf(r) /\ Tr!IsOrder(r)
      /\ Passed(r) \/ (Tr!CheckLimits(r) /\ UNCHANGED Tr!market)
      /\ ~Engine(r) /\ r \in Tr!AtWork'
  BY PassedStep
<1>2. Tr!EventOf(r) \in Pair /\ lost = {} /\ together = {} /\ private' = private /\ custom' = custom
  BY <1>1, BodyFits, LostGrows DEF Tr!EventOf
<1>3. CASE Passed(r)
  <2>1. Cardinality(Tr!Traded \intersect private) < PrivateLimit
    BY <1>1, <1>2, <1>3 DEF RoomForEvent
  <2>2. r \in Tr!AtWork
    BY <1>3 DEF Passed, Tr!AtWork, Tr!Begun
  <2>3. ASSUME NEW q \in Requests, Engine(q) PROVE FALSE
    <3>1. q \in Tr!AtWork
      BY <2>3, EngineActs DEF Tr!AtWork
    <3>2. Tr!EventOf(q) = Tr!EventOf(r)
      BY <1>2, <2>2, <3>1 DEF KnownTogether
    <3>3. q = r
      BY <1>2, <2>2, <3>1, <3>2, Alone
    <3> QED BY <1>1, <2>3, <3>3
  <2>4. \A f \in Pair : orders'[f] = orders[f]
    BY <2>3, OrdersFrame
  <2>5. Tr!Traded' = Tr!Traded
    BY <2>4 DEF Tr!Traded
  <2> QED BY <1>2, <2>1, <2>5
<1>4. CASE Tr!CheckLimits(r) /\ UNCHANGED Tr!market
  <2>1. Tr!MayBuy(r)
    BY <1>1, <1>4 DEF Tr!CheckLimits
  <2>2. Cardinality(Tr!Traded \intersect private) < PrivateLimit
    BY <1>1, <1>2, <2>1, TradeCardinality DEF Tr!MayBuy
  <2>3. Tr!Traded' = Tr!Traded
    BY <1>4 DEF Tr!Traded, Tr!market
  <2> QED BY <1>2, <2>2, <2>3
<1> QED BY <1>1, <1>3, <1>4

LEMMA HoldingsStep ==
    ASSUME TradeTyped, OneAtWork, KnownTogether, HoldingsHold, [Tr!Next]_(Tr!vars)
    PROVE  HoldingsHold'
<1>t. TradeRequestsTyped /\ BodiesFit /\ MarketTyped
  BY DEF TradeTyped
<1> SUFFICES ASSUME NEW r \in Requests, pc'[r] = "checked" \/ r \in pending', r \notin together', Tr!EventOf(r)' \notin lost'
             PROVE  StillHeld(r)'
  BY DEF HoldingsHold
<1>0. r \notin together /\ editable' = editable
  BY LostGrows
<1>1. CASE pc[r] = "checked" \/ r \in pending
  <2>1. data[r] # None /\ r \in Tr!AtWork
    BY <1>t, <1>1 DEF BodiesFit, Tr!AtWork, Tr!Begun
  <2>2. data'[r] = data[r] /\ Tr!EventOf(r)' = Tr!EventOf(r) /\ (Tr!IsOrder(r)' <=> Tr!IsOrder(r)) /\ Tr!EventOf(r) \in Pair
        /\ (Tr!Is(r, {"sell", "merge"})' <=> Tr!Is(r, {"sell", "merge"})) /\ data[r] \in Tr!Bodies
    BY <2>1, KindKept
  <2>3. Tr!EventOf(r) \notin lost
    BY <2>2, LostGrows
  <2>4. StillHeld(r)
    BY <1>0, <1>1, <2>3 DEF HoldingsHold
  <2>5. ASSUME NEW q \in Requests, Engine(q) PROVE FALSE
    <3>1. q \in Tr!AtWork
      BY <2>5, EngineActs DEF Tr!AtWork
    <3>2. Tr!EventOf(q) = Tr!EventOf(r)
      BY <1>0, <2>1, <3>1 DEF KnownTogether
    <3>3. q = r
      BY <2>1, <2>3, <3>1, <3>2, Alone
    <3>4. r \notin Tr!AtWork'
      BY <2>5, <3>3, EngineActs
    <3>5. r \in Tr!AtWork'
      BY DEF Tr!AtWork, Tr!Begun
    <3> QED BY <3>4, <3>5
  <2>6. wallet' = wallet /\ shares'[Tr!EventOf(r)] \in Nat /\ shares'[Tr!EventOf(r)] >= shares[Tr!EventOf(r)]
    <3>1. ASSUME NEW q \in Requests, TradeAct(q) PROVE UNCHANGED Tr!market
      BY <2>5, <3>1, TradeActFrame
    <3>2. ASSUME NEW q \in Requests, Tr!Fill(q) PROVE shares'[Tr!EventOf(r)] \in Nat /\ shares'[Tr!EventOf(r)] >= shares[Tr!EventOf(r)]
      <4>1. q \in open
        BY <3>2 DEF Tr!Fill
      <4>2. Tr!EventOf(q) \in Pair /\ data[q].amount \in Nat
        BY <4>1, OpenOrder
      <4> QED BY <1>t, <2>2, <3>2, <4>2 DEF Tr!Fill, MarketTyped
    <3>3. shares[Tr!EventOf(r)] \in Nat
      BY <1>t, <2>2 DEF MarketTyped
    <3> QED BY <3>1, <3>2, <3>3, OtherFrame DEF Tr!market
  <2>7. shares[Tr!EventOf(r)] \in Nat /\ data[r].amount \in Nat
    BY <1>t, <2>2, BodyFits DEF MarketTyped
  <2> QED BY <1>0, <2>2, <2>4, <2>6, <2>7 DEF StillHeld
<1>2. CASE ~(pc[r] = "checked" \/ r \in pending)
  <2>1. PICK q \in Requests : TradeAct(q)
    BY <1>2, OtherFrame
  <2>2. q = r
    BY <1>2, <2>1, TradeActFrame
  <2>3. Tr!CheckHoldings(r) \/ (Tr!MergeRead(r) /\ ~Tr!Start(r))
    BY <1>t, <1>2, <2>1, <2>2 DEF TradeAct, Arriving, Leaving, TradeGoing, Engine, Tr!Start, Tr!InProgress, Tr!Refuse, Tr!Finish, Tr!MergeNumbers,
              Tr!CheckLimits, Tr!CheckHoldings, Tr!Send, Tr!Answer, Tr!MergeRead, Tr!MergeSend, Tr!MergeDone, Tr!Buy, Tr!Sell, Tr!Cancel, Tr!Drop, Tr!Done, Tr!Step, TradeRequestsTyped
  <2>4. CASE Tr!CheckHoldings(r)
    <3>1. data' = data /\ UNCHANGED Tr!market
      BY <2>4 DEF Tr!CheckHoldings
    <3>2. ~Tr!Is(r, {"merge"})
      BY <1>t, <2>4 DEF Tr!CheckHoldings, Tr!Step, BodiesFit
    <3>3. Tr!Is(r, {"sell", "merge"}) => Tr!Is(r, {"sell"})
      BY <3>2 DEF Tr!Is
    <3> QED BY <1>0, <2>4, <3>1, <3>3 DEF Tr!CheckHoldings, Tr!Affordable, Tr!HasShares, Tr!MatchedOrders, StillHeld, Tr!IsOrder, Tr!Is, Tr!EventOf, Tr!market
  <2>5. CASE Tr!MergeRead(r) /\ ~Tr!Start(r)
    <3>1. PICK d \in Tr!Merges : d.amount <= Tr!MatchedOrders(d.event) /\ Tr!Arrive(r, d) /\ UNCHANGED Tr!market
      BY <2>5 DEF Tr!MergeRead
    <3>2. data'[r] = d /\ d.type = "merge"
      BY <1>t, <3>1 DEF Tr!Arrive, TradeRequestsTyped, Tr!Merges, Tr!Body
    <3> QED BY <3>1, <3>2 DEF StillHeld, Tr!IsOrder, Tr!Is, Tr!EventOf, Tr!MatchedOrders, Tr!market
  <2> QED BY <2>3, <2>4, <2>5
<1> QED BY <1>1, <1>2

LEMMA TradeInvInit == Tr!Init => TradeInv
<1> SUFFICES ASSUME Tr!Init PROVE TradeInv
  OBVIOUS
<1>1. Tr!AtWork = {} /\ \A r \in Requests : pc[r] = "idle" /\ data[r] = None /\ r \notin pending
  BY DEF Tr!Init, Tr!AtWork, Tr!Begun
<1>2. TradeTyped
  BY <1>1, TradeAssumption DEF Tr!Init, TradeTyped, EventsTyped, TradeRequestsTyped, MarketTyped, BodiesFit, CancelsFit, TradeSteps, Tr!Is, Tr!IsOrder, Tr!Begun
<1>3. OneAtWork /\ KnownTogether
  BY <1>1 DEF OneAtWork, KnownTogether, Tr!Working
<1>4. \A r \in Requests : ~Tr!IsOrder(r)
  BY <1>1 DEF Tr!IsOrder, Tr!Is
<1>5. AllowedHold /\ RoomForEvent /\ HoldingsHold
  BY <1>1, <1>4 DEF AllowedHold, RoomForEvent, HoldingsHold, Passed
<1> QED BY <1>2, <1>3, <1>5 DEF TradeInv

LEMMA TradeInvStep ==
    ASSUME TradeInv, [Tr!Next]_(Tr!vars)
    PROVE  TradeInv'
BY TradeTypedStep, OneStep, TogetherStep, AllowedStep, RoomStep, HoldingsStep DEF TradeInv

LEMMA TradeInvHolds == Tr!Spec => []TradeInv
BY TradeInvInit, TradeInvStep, PTL DEF Tr!Spec
-------------------------------------------------------------------------------
(* The limits *)

LEMMA LimitsInit == Tr!Init => Tr!OrdersHold
<1> SUFFICES ASSUME Tr!Init PROVE Tr!OrdersHold
  OBVIOUS
<1>1. PICK E \in SUBSET Pair :
          /\ shares = [f \in Pair |-> IF f \in E THEN 1 ELSE 0]
          /\ orders = shares /\ bought = shares
          /\ Cardinality(E \intersect (private \ custom)) <= PrivateLimit
  BY TradeCardinality DEF Tr!Init
<1>2. \A e \in Pair : orders[e] \in {0, 1} /\ bought[e] \in {0, 1} /\ canceled[e] = 0
  BY <1>1 DEF Tr!Init
<1>3. Tr!LimitsPerEvent
  BY <1>2, TradeAssumption DEF Tr!LimitsPerEvent
<1>4. Tr!Traded = E
  BY <1>1 DEF Tr!Traded
<1> QED BY <1>1, <1>3, <1>4 DEF Tr!OrdersHold, Tr!LimitOfEvents, Tr!StillThere, Tr!Init

LEMMA PerEventStep ==
    ASSUME TradeInv, Tr!LimitsPerEvent, [Tr!Next]_(Tr!vars)
    PROVE  Tr!LimitsPerEvent'
<1>t. TradeTyped /\ MarketTyped /\ TradeRequestsTyped /\ BodiesFit
  BY DEF TradeInv, TradeTyped
<1> SUFFICES ASSUME NEW e \in Pair, e \notin lost'
             PROVE  /\ e \in private' \ custom' => orders'[e] <= 1
                    /\ e \in custom' => orders'[e] - canceled'[e] <= RetentionLimit
                    /\ e \notin unclear' => bought'[e] <= MaxTradeAmount
  BY DEF Tr!LimitsPerEvent
<1>0. e \notin lost /\ private' = private /\ custom' = custom /\ unclear \subseteq unclear'
  BY <1>t, LostGrows
<1>l. /\ e \in private \ custom => orders[e] <= 1
      /\ e \in custom => orders[e] - canceled[e] <= RetentionLimit
      /\ e \notin unclear => bought[e] <= MaxTradeAmount
  BY <1>0 DEF Tr!LimitsPerEvent
<1>n. orders[e] \in Nat /\ canceled[e] \in Nat /\ bought[e] \in Int
  BY <1>t DEF MarketTyped
<1>1. CASE \A r \in Requests : Engine(r) => Tr!EventOf(r) # e
  BY <1>t, <1>0, <1>1, <1>l, OrdersFrame
<1>2. ASSUME NEW r \in Requests, Engine(r), Tr!EventOf(r) = e
      PROVE  /\ e \in private' \ custom' => orders'[e] <= 1
             /\ e \in custom' => orders'[e] - canceled'[e] <= RetentionLimit
             /\ e \notin unclear' => bought'[e] <= MaxTradeAmount
  <2>1. r \in pending /\ data[r] \in Tr!Bodies /\ unclear' = unclear
    BY <1>t, <1>2, EngineActs, TradeActFrame DEF TradeAct, Arriving, Tr!Start, Tr!MergeRead, Tr!Step, BodiesFit, Tr!Begun
  <2>2. data[r].amount \in Nat /\ data[r].claim \in Nat
    BY <2>1, BodyFits
  <2>3. CASE Tr!Buy(r)
    <3>1. Tr!IsOrder(r) /\ Passed(r)
      BY <2>1, <2>3 DEF Tr!Buy, Passed
    <3>2. StillAllowed(r)
      BY <1>0, <1>2, <3>1 DEF TradeInv, AllowedHold
    <3>3. e \notin unclear => data[r].amount <= data[r].claim
      BY <1>t, <1>2, <2>2, <3>1 DEF BodiesFit
    <3>4. orders'[e] = orders[e] + 1 /\ bought'[e] = bought[e] + data[r].amount /\ canceled'[e] = canceled[e]
      BY <1>t, <1>2, <2>3 DEF Tr!Buy, MarketTyped
    <3>5. /\ e \in private \ custom => orders[e] = 0
          /\ e \in custom /\ orders[e] > 0 => orders[e] - canceled[e] < RetentionLimit
          /\ bought[e] + data[r].claim <= MaxTradeAmount
      BY <1>2, <3>2 DEF StillAllowed
    <3> QED BY <1>0, <1>n, <2>1, <2>2, <3>3, <3>4, <3>5, TradeAssumption
  <2>4. CASE Tr!Cancel(r)
    <3>1. data[r].target \in open /\ Tr!EventOf(data[r].target) = e
      BY <1>t, <1>2, <2>1, <2>4 DEF Tr!Cancel, TradeTyped, CancelsFit
    <3>2. data[data[r].target].amount \in Nat
      BY <1>t, <3>1, OpenOrder
    <3>3. orders'[e] = orders[e] /\ canceled'[e] = canceled[e] + 1 /\ bought'[e] = bought[e] - data[data[r].target].amount
      BY <1>t, <2>4, <3>1 DEF Tr!Cancel, MarketTyped
    <3> QED BY <1>0, <1>l, <1>n, <2>1, <3>2, <3>3, TradeAssumption
  <2>5. CASE Tr!Sell(r) \/ Tr!Drop(r)
    BY <1>0, <1>l, <2>1, <2>5 DEF Tr!Sell, Tr!Drop
  <2> QED BY <1>2, <2>3, <2>4, <2>5 DEF Engine
<1> QED BY <1>1, <1>2

LEMMA OfEventsStep ==
    ASSUME TradeInv, Tr!LimitOfEvents, [Tr!Next]_(Tr!vars)
    PROVE  Tr!LimitOfEvents'
<1>t. TradeTyped /\ MarketTyped /\ EventsTyped
  BY DEF TradeInv, TradeTyped
<1> SUFFICES ASSUME lost' = {}, together' = {}
             PROVE  Cardinality(Tr!Traded \intersect (private \ custom))' <= PrivateLimit
  BY TradeCardinality DEF Tr!LimitOfEvents
<1>0. lost = {} /\ together = {} /\ private' = private /\ custom' = custom
  BY <1>t, LostGrows
<1>1. Cardinality(Tr!Traded \intersect (private \ custom)) <= PrivateLimit
  BY <1>0, TradeCardinality DEF Tr!LimitOfEvents
<1>2. CASE \E r \in Requests : Tr!Buy(r) /\ Tr!EventOf(r) \in private \ custom
  <2>1. PICK r \in Requests : Tr!Buy(r) /\ Tr!EventOf(r) \in private \ custom
    BY <1>2
  <2>2. r \in pending /\ Passed(r)
    BY <1>t, <2>1, EngineActs DEF Engine, Tr!Buy, Passed
  <2>3. Cardinality(Tr!Traded \intersect private) < PrivateLimit
    BY <1>0, <2>1, <2>2 DEF TradeInv, RoomForEvent
  <2>4. Tr!Traded' \subseteq Tr!Traded \union {Tr!EventOf(r)}
    BY <1>t, <2>1 DEF Tr!Buy, Tr!Traded, MarketTyped
  <2>5. IsFiniteSet(Tr!Traded \intersect private)
    BY <1>t, TradeAssumption, FS_Subset DEF EventsTyped
  <2>6. (Tr!Traded \intersect private) \union {Tr!EventOf(r)} \in SUBSET Pair
        /\ (Tr!Traded \intersect (private \ custom))' \subseteq (Tr!Traded \intersect private) \union {Tr!EventOf(r)}
    BY <1>0, <1>t, <2>1, <2>4 DEF EventsTyped
  <2>7. Cardinality((Tr!Traded \intersect private) \union {Tr!EventOf(r)}) <= Cardinality(Tr!Traded \intersect private) + 1
        /\ Cardinality(Tr!Traded \intersect private) \in Nat
        /\ IsFiniteSet((Tr!Traded \intersect private) \union {Tr!EventOf(r)})
    <3>1. ASSUME NEW S, IsFiniteSet(S), NEW x
          PROVE  IsFiniteSet(S \union {x}) /\ Cardinality(S) \in Nat /\ Cardinality(S \union {x}) <= Cardinality(S) + 1
      <4>1. Cardinality(S) \in Nat
        BY <3>1, FS_CardinalityType
      <4>2. /\ IsFiniteSet(S \union {x})
            /\ Cardinality(S \union {x}) = Cardinality(S) \/ Cardinality(S \union {x}) = Cardinality(S) + 1
        BY <3>1, FS_AddElement
      <4> QED BY <4>1, <4>2
    <3> QED BY <2>5, <3>1
  <2>8. Cardinality(Tr!Traded \intersect (private \ custom))' <= Cardinality((Tr!Traded \intersect private) \union {Tr!EventOf(r)})
        /\ Cardinality(Tr!Traded \intersect (private \ custom))' \in Nat
        /\ Cardinality((Tr!Traded \intersect private) \union {Tr!EventOf(r)}) \in Nat
    BY <2>6, <2>7, FS_Subset, FS_CardinalityType
  <2> QED BY <2>3, <2>7, <2>8, TradeAssumption
<1>3. CASE ~\E r \in Requests : Tr!Buy(r) /\ Tr!EventOf(r) \in private \ custom
  <2>1. \A f \in private \ custom : orders'[f] = orders[f]
    <3>1. ASSUME NEW r \in Requests, Engine(r) PROVE \A f \in private \ custom : orders'[f] = orders[f]
      BY <1>t, <1>3, <3>1 DEF Engine, Tr!Buy, Tr!Sell, Tr!Cancel, Tr!Drop, MarketTyped, EventsTyped
    <3>2. ASSUME ~\E r \in Requests : Engine(r) PROVE \A f \in private \ custom : orders'[f] = orders[f]
      BY <1>t, <3>2, OrdersFrame DEF EventsTyped
    <3> QED BY <3>1, <3>2
  <2>2. (Tr!Traded \intersect (private \ custom))' = Tr!Traded \intersect (private \ custom)
    BY <1>0, <2>1 DEF Tr!Traded
  <2> QED BY <1>1, <2>2
<1> QED BY <1>2, <1>3

LEMMA ThereStep ==
    ASSUME TradeInv, Tr!StillThere, [Tr!Next]_(Tr!vars)
    PROVE  Tr!StillThere'
<1>t. TradeTyped /\ TradeRequestsTyped /\ BodiesFit
  BY DEF TradeInv, TradeTyped
<1> SUFFICES ASSUME NEW r \in short' PROVE r \in together' \/ Tr!EventOf(r)' \in lost'
  BY DEF Tr!StillThere
<1>0. lost \subseteq lost' /\ together \subseteq together'
  BY <1>t, LostGrows
<1>1. CASE r \in short
  <2>1. r \in Requests /\ data[r] # None
    BY <1>t, <1>1 DEF TradeRequestsTyped, BodiesFit
  <2>2. Tr!EventOf(r)' = Tr!EventOf(r)
    BY <1>t, <2>1, KindKept
  <2> QED BY <1>0, <1>1, <2>2 DEF Tr!StillThere
<1>2. CASE r \notin short
  <2>1. PICK q \in Requests : Engine(q)
    BY <1>t, <1>2, TradeActFrame, OtherFrame DEF Tr!market
  <2>2. q = r /\ Tr!Drop(r)
    BY <1>2, <2>1 DEF Engine, Tr!Buy, Tr!Sell, Tr!Cancel, Tr!Drop
  <2>3. r \in pending /\ data' = data /\ data[r] \in Tr!Bodies /\ Tr!EventOf(r) \in Pair
    BY <1>t, <2>1, <2>2, EngineActs
  <2>4. \/ Tr!IsOrder(r) /\ data[r].amount > wallet
        \/ Tr!Is(r, {"sell", "merge"}) /\ Tr!EventOf(r) \notin editable /\ data[r].amount > shares[Tr!EventOf(r)]
    BY <1>2, <2>2 DEF Tr!Drop
  <2>5. data[r].amount \in Nat /\ wallet \in Nat /\ shares[Tr!EventOf(r)] \in Nat
    BY <1>t, <2>3, BodyFits DEF TradeTyped, MarketTyped
  <2>6. ~StillHeld(r)
    BY <2>4, <2>5 DEF StillHeld
  <2>7. r \in together \/ Tr!EventOf(r) \in lost
    BY <2>1, <2>2, <2>3, <2>6 DEF TradeInv, HoldingsHold
  <2> QED BY <1>0, <2>3, <2>7 DEF Tr!EventOf
<1> QED BY <1>1, <1>2

\* The checks of putCall bound what a user does wherever the key does its work: an event
\* whose key was not lost keeps its limits, requests that were never at work on two events
\* at a time keep the number of private events, and money and shares that were checked
\* are still there, for any requests, events and limits.
LEMMA OrdersKept == Tr!Spec => []Tr!OrdersHold
<1>1. Tr!OrdersHold /\ TradeInv /\ [Tr!Next]_(Tr!vars) => Tr!OrdersHold'
  BY PerEventStep, OfEventsStep, ThereStep DEF Tr!OrdersHold
<1> QED BY LimitsInit, TradeInvHolds, <1>1, PTL DEF Tr!Spec

-------------------------------------------------------------------------------
(* PRICES.  A quote is what the book bids; what differs is pending, or stale *)
(* by one of the named ways.                                                 *)

(* The invariant *)

PricesSteps == {"idle", "sent", "cleared", "cached", "listed", "computed", "done", "failed"}

PricesTyped ==
    /\ editable \in BOOLEAN /\ market \in Pr!Markets /\ replica \in Pr!Markets
    /\ kind \in [Requests -> Pr!Trades \union Pr!Readers]
    /\ pending \subseteq Requests /\ \A r \in pending : kind[r] \in Pr!Trades
    /\ stale \subseteq {"cp", "page"} /\ pc \in [Requests -> PricesSteps]

\* As long as an order of a putCall is pending, a page was written while it was.
PendingIsStale ==
    \A r \in pending : kind[r] = "putCall" /\ domain[r] = "public" => page = None \/ "page" \in stale

\* A page that is out of date unnoticed is deleted by an odds order or a cancellation.
PageIsDeleted ==
    page # None /\ page.market # market /\ "page" \notin stale =>
        \E r \in Pr!Refreshing : kind[r] \in {"odds", "cancel"}

-------------------------------------------------------------------------------
(* Bids *)

\* A set of numbers below a bound has a greatest one.
LEMMA GreatestNumber ==
    ASSUME NEW S \in SUBSET (0 .. Pr!Full), S # {}
    PROVE  Pr!Max(S) \in S /\ \A x \in S : x <= Pr!Max(S)
<1> DEFINE C == {Pr!Full - x : x \in S}
<1>1. C \in SUBSET Nat /\ C # {}
  <2>1. \A x \in S : Pr!Full - x \in Nat
    BY DEF Pr!Full
  <2> QED BY <2>1
<1>2. PICK c \in C : \A d \in C : c <= d
  BY <1>1, LeastNumber
<1>3. PICK m \in S : c = Pr!Full - m
  BY <1>2
<1>4. \A x \in S : x <= m
  <2> SUFFICES ASSUME NEW x \in S PROVE x <= m
    OBVIOUS
  <2>1. Pr!Full - x \in C
    OBVIOUS
  <2>2. c <= Pr!Full - x /\ x \in Nat /\ m \in Nat
    BY <1>2, <1>3, <2>1
  <2> QED BY <1>3, <2>2 DEF Pr!Full
<1>5. \A x \in S : x \in Nat
  BY DEF Pr!Full
<1> QED BY <1>3, <1>4, <1>5 DEF Pr!Max

LEMMA BidNumber ==
    ASSUME NEW book \in SUBSET BookOrders, NEW v \in Pr!Sides
    PROVE  Pr!Bid(book, v) \in 0 .. Pr!Full - 1
<1> DEFINE A == {o.coins : o \in {p \in book : p.status = "A" /\ p.callvalue = v}}
           H == {Pr!Full - o.coins : o \in {p \in book : p.status = "H" /\ p.callvalue = Pr!Other(v)}}
           S == {0} \union A \union H
<1>1. \A o \in book : o.coins \in 1 .. Pr!Full - 1
  BY PricesAssumption
<1>2. S \subseteq 0 .. Pr!Full - 1
  BY <1>1 DEF Pr!Full
<1>3. S \in SUBSET (0 .. Pr!Full) /\ S # {}
  BY <1>2 DEF Pr!Full
<1>4. Pr!Max(S) \in S
  BY <1>3, GreatestNumber
<1> QED BY <1>2, <1>4 DEF Pr!Bid

\* Nothing is bid in an empty book.
LEMMA EmptyBids == \A v \in Pr!Sides : Pr!Bid({}, v) = 0
<1>1. \A v \in Pr!Sides : {0} \union {o.coins : o \in {p \in {} : p.status = "A" /\ p.callvalue = v}}
         \union {Pr!Full - o.coins : o \in {p \in {} : p.status = "H" /\ p.callvalue = Pr!Other(v)}} = {0}
  OBVIOUS
<1>2. Pr!Max({0}) = 0
  BY DEF Pr!Max
<1> QED BY <1>1, <1>2 DEF Pr!Bid

LEMMA EmptyBook == {} \in Pr!Books
BY EmptyBids DEF Pr!Books, Pr!Sides, Pr!Full

\* The quotes of a book in which nothing matches are fair.
LEMMA BooksAreFair ==
    ASSUME NEW book \in Pr!Books
    PROVE  /\ Pr!BestPrice(book).newYCP + Pr!BestPrice(book).newNCP >= Pr!Full
           /\ \A v \in Pr!Sides : Pr!Bid(book, v) > 0 => Pr!ExitPrice(Pr!BestPrice(book), v) = Pr!Bid(book, v)
           /\ Pr!MidPrice(book).yCP \in Pr!Bid(book, "Y") .. Pr!Full - Pr!Bid(book, "N")
<1>1. PICK y \in 0 .. Pr!Full - 1 : y = Pr!Bid(book, "Y")
  BY BidNumber DEF Pr!Books, Pr!Sides
<1>2. PICK n \in 0 .. Pr!Full - 1 : n = Pr!Bid(book, "N")
  BY BidNumber DEF Pr!Books, Pr!Sides
<1>3. y + n < Pr!Full /\ y \in Nat /\ n \in Nat
  BY <1>1, <1>2 DEF Pr!Books, Pr!Full
<1>4. Pr!BestPrice(book) =
         Pr!Quote(IF n = 0 THEN 50 ELSE Pr!Full - n, IF y = 0 THEN 50 ELSE Pr!Full - y,
               IF n # 0 THEN Pr!Full - n ELSE IF y # 0 THEN y ELSE 50,
               IF y # 0 THEN Pr!Full - y ELSE IF n # 0 THEN n ELSE 50)
  BY <1>1, <1>2 DEF Pr!BestPrice
<1>5. Pr!BestPrice(book).newYCP + Pr!BestPrice(book).newNCP >= Pr!Full
  BY <1>3, <1>4 DEF Pr!Quote, Pr!Full
<1>6. (y > 0 => Pr!ExitPrice(Pr!BestPrice(book), "Y") = y) /\ (n > 0 => Pr!ExitPrice(Pr!BestPrice(book), "N") = n)
  BY <1>3, <1>4 DEF Pr!Quote, Pr!Full, Pr!ExitPrice
<1>7. \A v \in Pr!Sides : Pr!Bid(book, v) > 0 => Pr!ExitPrice(Pr!BestPrice(book), v) = Pr!Bid(book, v)
  BY <1>1, <1>2, <1>6 DEF Pr!Sides
<1>8. Pr!MidPrice(book).yCP = IF Pr!Full + y - n > Pr!Full THEN (Pr!Full + y - n) \div 2 ELSE (Pr!Full + y - n + 1) \div 2
  BY <1>1, <1>2 DEF Pr!MidPrice, Pr!Quote
<1>9. Pr!MidPrice(book).yCP \in y .. Pr!Full - n
  BY <1>3, <1>8 DEF Pr!Full
<1> QED BY <1>1, <1>2, <1>5, <1>7, <1>9

-------------------------------------------------------------------------------
(* The steps *)

PricesAct(r) ==
    \/ Pr!Send(r) \/ Pr!Match(r) \/ Pr!Clear(r) \/ Pr!AnswerEarly(r) \/ Pr!UpdateRead(r) \/ Pr!UpdateWrite(r)
    \/ Pr!ExitCached(r) \/ Pr!ExitGet(r) \/ Pr!ExitRead(r) \/ Pr!ExitWrite(r) \/ Pr!MyBetsCP(r)
    \/ Pr!PageCached(r) \/ Pr!ReadCalls(r) \/ Pr!ReadPrice(r) \/ Pr!WritePage(r)

LEMMA PricesGoes ==
    ASSUME PricesTyped, NEW r \in Requests, NEW from, NEW to, Pr!Step(r, from, to)
    PROVE  pc[r] = from /\ pc'[r] = to /\ \A q \in Requests : q # r => pc'[q] = pc[q]
BY DEF PricesTyped, Pr!Step

\* Types.
LEMMA PricesTypedStep ==
    ASSUME PricesTyped, [Pr!Next]_(Pr!vars)
    PROVE  PricesTyped'
<1> USE DEF PricesTyped
<1>1. editable' = editable /\ kind' = kind
  BY DEF Pr!Next, Pr!vars, Pr!Send, Pr!Match, Pr!Clear, Pr!AnswerEarly, Pr!UpdateRead, Pr!UpdateWrite, Pr!ExitCached, Pr!ExitGet, Pr!ExitRead,
         Pr!ExitWrite, Pr!MyBetsCP, Pr!PageCached, Pr!ReadCalls, Pr!ReadPrice, Pr!WritePage, Pr!Replicate, Pr!PageExpire, Pr!request
<1>2. Pr!Markets' = Pr!Markets
  BY <1>1 DEF Pr!Markets
<1>3. market' \in Pr!Markets /\ replica' \in Pr!Markets
  BY DEF Pr!Next, Pr!vars, Pr!Send, Pr!Match, Pr!Clear, Pr!AnswerEarly, Pr!UpdateRead, Pr!UpdateWrite, Pr!ExitCached, Pr!ExitGet, Pr!ExitRead,
         Pr!ExitWrite, Pr!MyBetsCP, Pr!PageCached, Pr!ReadCalls, Pr!ReadPrice, Pr!WritePage, Pr!Replicate, Pr!PageExpire
<1>4. pending' \subseteq Requests /\ \A r \in pending' : kind[r] \in Pr!Trades
  BY DEF Pr!Next, Pr!vars, Pr!Send, Pr!Match, Pr!Clear, Pr!AnswerEarly, Pr!UpdateRead, Pr!UpdateWrite, Pr!ExitCached, Pr!ExitGet, Pr!ExitRead,
         Pr!ExitWrite, Pr!MyBetsCP, Pr!PageCached, Pr!ReadCalls, Pr!ReadPrice, Pr!WritePage, Pr!Replicate, Pr!PageExpire
<1>5. stale' \subseteq {"cp", "page"}
  BY DEF Pr!Next, Pr!vars, Pr!Send, Pr!Match, Pr!Clear, Pr!AnswerEarly, Pr!UpdateRead, Pr!UpdateWrite, Pr!ExitCached, Pr!ExitGet, Pr!ExitRead,
         Pr!ExitWrite, Pr!MyBetsCP, Pr!PageCached, Pr!ReadCalls, Pr!ReadPrice, Pr!WritePage, Pr!Replicate, Pr!PageExpire, Pr!PutCp
<1>6. pc' \in [Requests -> PricesSteps]
  BY DEF Pr!Next, Pr!vars, Pr!Send, Pr!Match, Pr!Clear, Pr!AnswerEarly, Pr!UpdateRead, Pr!UpdateWrite, Pr!ExitCached, Pr!ExitGet, Pr!ExitRead,
         Pr!ExitWrite, Pr!MyBetsCP, Pr!PageCached, Pr!ReadCalls, Pr!ReadPrice, Pr!WritePage, Pr!Replicate, Pr!PageExpire, Pr!Step, PricesSteps
<1> QED BY <1>1, <1>2, <1>3, <1>4, <1>5, <1>6

\* The price is deleted or computed again after every change of the market.
LEMMA PriceStep ==
    ASSUME PricesTyped, Pr!PriceIsCurrent, [Pr!Next]_(Pr!vars)
    PROVE  Pr!PriceIsCurrent'
<1> USE DEF Pr!PriceIsCurrent
<1>1. \A m : Pr!PriceOf(m)' = Pr!PriceOf(m) \/ editable' # editable
  BY DEF Pr!PriceOf
<1>2. ASSUME UNCHANGED <<editable, market, cp>>, Pr!Refreshing \subseteq Pr!Refreshing', stale' = stale
      PROVE  Pr!PriceIsCurrent'
  BY <1>2 DEF Pr!PriceOf
<1>3. CASE UNCHANGED Pr!vars
  BY <1>2, <1>3 DEF Pr!vars, Pr!Refreshing
<1>4. ASSUME NEW r \in Requests, Pr!Send(r) PROVE Pr!PriceIsCurrent'
  <2>1. r \in Pr!Refreshing'
    BY <1>4, PricesGoes DEF Pr!Send, Pr!Refreshing
  <2> QED BY <2>1
<1>5. ASSUME NEW r \in Requests, Pr!Match(r) PROVE Pr!PriceIsCurrent'
  <2>1. pc[r] = "sent" => r \in Pr!Refreshing'
    BY <1>5 DEF Pr!Match, Pr!Refreshing
  <2> QED BY <1>5, <2>1 DEF Pr!Match
<1>6. ASSUME NEW r \in Requests, Pr!Clear(r) PROVE Pr!PriceIsCurrent'
  BY <1>6 DEF Pr!Clear
<1>7. ASSUME NEW r \in Requests, Pr!UpdateWrite(r) \/ Pr!ExitWrite(r) \/ Pr!ReadPrice(r), cp' # cp \/ stale' # stale
      PROVE  Pr!PriceIsCurrent'
  <2>1. \E q : Pr!PutCp(q) /\ editable' = editable /\ market' = market
    BY <1>7 DEF Pr!UpdateWrite, Pr!ExitWrite, Pr!ReadPrice, Pr!request
  <2> QED BY <2>1 DEF Pr!PutCp, Pr!PriceOf
<1>8. ASSUME NEW r \in Requests,
             \/ Pr!AnswerEarly(r) \/ Pr!UpdateRead(r) \/ Pr!ExitCached(r) \/ Pr!ExitGet(r) \/ Pr!ExitRead(r) \/ Pr!MyBetsCP(r)
             \/ Pr!PageCached(r) \/ Pr!ReadCalls(r)
             \/ (Pr!UpdateWrite(r) \/ Pr!ExitWrite(r) \/ Pr!ReadPrice(r)) /\ cp' = cp /\ stale' = stale
      PROVE  Pr!PriceIsCurrent'
  <2>1. (\E from, to : Pr!Step(r, from, to) /\ from # "sent") \/ Pr!ExitGet(r)
    BY <1>8 DEF Pr!AnswerEarly, Pr!UpdateRead, Pr!ExitCached, Pr!ExitRead, Pr!MyBetsCP, Pr!PageCached, Pr!ReadCalls, Pr!UpdateWrite,
                Pr!ExitWrite, Pr!ReadPrice
  <2>2. Pr!Refreshing \subseteq Pr!Refreshing'
    BY <2>1, PricesGoes DEF Pr!ExitGet, Pr!Refreshing, PricesTyped
  <2>3. UNCHANGED <<editable, market, cp>> /\ stale' = stale
    BY <1>8 DEF Pr!AnswerEarly, Pr!UpdateRead, Pr!ExitCached, Pr!ExitGet, Pr!ExitRead, Pr!MyBetsCP, Pr!PageCached, Pr!ReadCalls,
                Pr!UpdateWrite, Pr!ExitWrite, Pr!ReadPrice, Pr!request
  <2> QED BY <1>2, <2>2, <2>3
<1>9. ASSUME NEW r \in Requests, Pr!WritePage(r) PROVE Pr!PriceIsCurrent'
  <2>1. Pr!Refreshing \subseteq Pr!Refreshing'
    BY <1>9, PricesGoes DEF Pr!WritePage, Pr!Refreshing
  <2> QED BY <1>9, <2>1 DEF Pr!WritePage, Pr!PriceOf, Pr!request
<1>10. CASE Pr!Replicate \/ Pr!PageExpire
  BY <1>10 DEF Pr!Replicate, Pr!PageExpire, Pr!PriceOf, Pr!request, Pr!Refreshing
<1> QED BY <1>3, <1>4, <1>5, <1>6, <1>7, <1>8, <1>9, <1>10 DEF Pr!Next

\* An order that is pending keeps the page from being right.
LEMMA PendingStep ==
    ASSUME PricesTyped, PendingIsStale, [Pr!Next]_(Pr!vars)
    PROVE  PendingIsStale'
<1> USE DEF PendingIsStale
<1>1. ASSUME NEW r \in Requests, Pr!Send(r) PROVE PendingIsStale'
  <2>1. kind[r] = "putCall" /\ domain[r] = "public" => page' = None
    BY <1>1 DEF Pr!Send
  <2>2. \A q \in pending : ~(kind[r] = "putCall" /\ domain[r] = "public") => page' = page /\ stale' = stale
    BY <1>1 DEF Pr!Send
  <2>3. pending' = pending \union {r} /\ kind' = kind /\ domain' = domain
    BY <1>1 DEF Pr!Send, Pr!request
  <2> QED BY <2>1, <2>2, <2>3
<1>2. ASSUME NEW r \in Requests, Pr!Match(r) PROVE PendingIsStale'
  BY <1>2 DEF Pr!Match, Pr!request
<1>3. ASSUME NEW r \in Requests, Pr!Clear(r) PROVE PendingIsStale'
  BY <1>3 DEF Pr!Clear, Pr!request
<1>4. ASSUME NEW r \in Requests, Pr!WritePage(r) PROVE PendingIsStale'
  BY <1>4 DEF Pr!WritePage, Pr!request
<1>5. ASSUME NEW r \in Requests,
             \/ Pr!AnswerEarly(r) \/ Pr!UpdateRead(r) \/ Pr!ExitCached(r) \/ Pr!ExitGet(r) \/ Pr!ExitRead(r) \/ Pr!MyBetsCP(r)
             \/ Pr!PageCached(r) \/ Pr!ReadCalls(r) \/ Pr!UpdateWrite(r) \/ Pr!ExitWrite(r) \/ Pr!ReadPrice(r)
      PROVE  PendingIsStale'
  <2>1. UNCHANGED <<kind, domain, pending, page>>
    BY <1>5 DEF Pr!AnswerEarly, Pr!UpdateRead, Pr!ExitCached, Pr!ExitGet, Pr!ExitRead, Pr!MyBetsCP, Pr!PageCached, Pr!ReadCalls,
                Pr!UpdateWrite, Pr!ExitWrite, Pr!ReadPrice, Pr!request
  <2>2. "page" \in stale => "page" \in stale'
    BY <1>5 DEF Pr!AnswerEarly, Pr!UpdateRead, Pr!ExitCached, Pr!ExitGet, Pr!ExitRead, Pr!MyBetsCP, Pr!PageCached, Pr!ReadCalls,
                Pr!UpdateWrite, Pr!ExitWrite, Pr!ReadPrice, Pr!PutCp
  <2> QED BY <2>1, <2>2
<1>6. CASE Pr!Replicate \/ Pr!PageExpire \/ UNCHANGED Pr!vars
  BY <1>6 DEF Pr!Replicate, Pr!PageExpire, Pr!vars, Pr!request
<1> QED BY <1>1, <1>2, <1>3, <1>4, <1>5, <1>6 DEF Pr!Next

\* A page that a trade makes out of date is deleted after it.
LEMMA PageStep ==
    ASSUME PricesTyped, PendingIsStale, PageIsDeleted, [Pr!Next]_(Pr!vars)
    PROVE  PageIsDeleted'
<1> USE DEF PageIsDeleted
<1>1. kind' = kind
  BY DEF Pr!Next, Pr!vars, Pr!Send, Pr!Match, Pr!Clear, Pr!AnswerEarly, Pr!UpdateRead, Pr!UpdateWrite, Pr!ExitCached, Pr!ExitGet, Pr!ExitRead,
         Pr!ExitWrite, Pr!MyBetsCP, Pr!PageCached, Pr!ReadCalls, Pr!ReadPrice, Pr!WritePage, Pr!Replicate, Pr!PageExpire, Pr!request
<1>2. ASSUME UNCHANGED <<market, page>>, Pr!Refreshing \subseteq Pr!Refreshing', "page" \in stale => "page" \in stale'
      PROVE  PageIsDeleted'
  BY <1>1, <1>2
<1>3. ASSUME NEW r \in Requests, Pr!Send(r) PROVE PageIsDeleted'
  <2>1. Pr!Refreshing \subseteq Pr!Refreshing'
    BY <1>3, PricesGoes DEF Pr!Send, Pr!Refreshing
  <2> QED BY <1>2, <1>3, <2>1 DEF Pr!Send
<1>4. ASSUME NEW r \in Requests, Pr!Match(r) PROVE PageIsDeleted'
  <2>1. Pr!Refreshing' = Pr!Refreshing /\ page' = page
    BY <1>4 DEF Pr!Match, Pr!Refreshing
  <2>2. CASE pc[r] # "sent"
    BY <1>4, <2>2 DEF Pr!Match
  <2>3. CASE domain[r] # "public"
    BY <1>2, <1>4, <2>1, <2>3 DEF Pr!Match
  <2>4. CASE pc[r] = "sent" /\ domain[r] = "public" /\ kind[r] = "putCall"
    BY <1>4, <2>4 DEF Pr!Match, PendingIsStale
  <2>5. CASE pc[r] = "sent" /\ kind[r] # "putCall"
    <3>1. kind[r] \in {"odds", "cancel"} /\ r \in Pr!Refreshing'
      BY <1>4, <2>1, <2>5 DEF Pr!Match, PricesTyped, Pr!Trades, Pr!Refreshing
    <3> QED BY <1>1, <3>1
  <2> QED BY <2>2, <2>3, <2>4, <2>5
<1>5. ASSUME NEW r \in Requests, Pr!Clear(r) PROVE PageIsDeleted'
  <2>1. CASE kind[r] = "putCall"
    <3>1. \A q \in Pr!Refreshing : q # r => q \in Pr!Refreshing'
      BY <1>5, PricesGoes DEF Pr!Clear, Pr!Refreshing
    <3>2. market' = market /\ page' = page /\ ("page" \in stale => "page" \in stale')
      BY <1>5, <2>1 DEF Pr!Clear
    <3> QED BY <1>1, <2>1, <3>1, <3>2
  <2>2. CASE kind[r] # "putCall"
    BY <1>5, <2>2 DEF Pr!Clear
  <2> QED BY <2>1, <2>2
<1>6. ASSUME NEW r \in Requests, Pr!WritePage(r) PROVE PageIsDeleted'
  <2>1. Pr!Refreshing \subseteq Pr!Refreshing'
    BY <1>6, PricesGoes DEF Pr!WritePage, Pr!Refreshing
  <2> QED BY <1>1, <1>2, <1>6, <2>1 DEF Pr!WritePage
<1>7. ASSUME NEW r \in Requests,
             \/ Pr!AnswerEarly(r) \/ Pr!UpdateRead(r) \/ Pr!ExitCached(r) \/ Pr!ExitGet(r) \/ Pr!ExitRead(r) \/ Pr!MyBetsCP(r)
             \/ Pr!PageCached(r) \/ Pr!ReadCalls(r) \/ Pr!UpdateWrite(r) \/ Pr!ExitWrite(r) \/ Pr!ReadPrice(r)
      PROVE  PageIsDeleted'
  <2>1. (\E from, to : Pr!Step(r, from, to) /\ from # "sent") \/ Pr!ExitGet(r)
    BY <1>7 DEF Pr!AnswerEarly, Pr!UpdateRead, Pr!ExitCached, Pr!ExitRead, Pr!MyBetsCP, Pr!PageCached, Pr!ReadCalls, Pr!UpdateWrite,
                Pr!ExitWrite, Pr!ReadPrice
  <2>2. Pr!Refreshing \subseteq Pr!Refreshing'
    BY <2>1, PricesGoes DEF Pr!ExitGet, Pr!Refreshing, PricesTyped
  <2>3. UNCHANGED <<market, page>>
    BY <1>7 DEF Pr!AnswerEarly, Pr!UpdateRead, Pr!ExitCached, Pr!ExitGet, Pr!ExitRead, Pr!MyBetsCP, Pr!PageCached, Pr!ReadCalls,
                Pr!UpdateWrite, Pr!ExitWrite, Pr!ReadPrice, Pr!request
  <2>4. "page" \in stale => "page" \in stale'
    BY <1>7 DEF Pr!AnswerEarly, Pr!UpdateRead, Pr!ExitCached, Pr!ExitGet, Pr!ExitRead, Pr!MyBetsCP, Pr!PageCached, Pr!ReadCalls,
                Pr!UpdateWrite, Pr!ExitWrite, Pr!ReadPrice, Pr!PutCp
  <2> QED BY <1>2, <2>2, <2>3, <2>4
<1>8. CASE Pr!Replicate \/ Pr!PageExpire \/ UNCHANGED Pr!vars
  BY <1>1, <1>8 DEF Pr!Replicate, Pr!PageExpire, Pr!vars, Pr!request, Pr!Refreshing
<1> QED BY <1>3, <1>4, <1>5, <1>6, <1>7, <1>8 DEF Pr!Next

-------------------------------------------------------------------------------
(* Theorems *)

PricesInv == PricesTyped /\ Pr!PriceIsCurrent /\ PendingIsStale /\ PageIsDeleted

\* The invariant holds.
LEMMA PricesInvariant == Pr!Spec => []PricesInv
<1>1. Pr!Init => PricesInv
  <2> SUFFICES ASSUME Pr!Init PROVE PricesInv
    OBVIOUS
  <2>1. market \in Pr!Markets
    BY EmptyBook DEF Pr!Init, Pr!Markets, Pr!Positions
  <2>2. PricesTyped
    BY <2>1 DEF Pr!Init, PricesTyped, PricesSteps
  <2>3. Pr!PriceIsCurrent
    <3>1. editable => Pr!PriceOf(market) = Pr!Quote(50, 50, 50, 50)
      <4>1. \A v \in Pr!Sides : Pr!Bid({}, v) = 0
        BY EmptyBids
      <4> QED BY <4>1 DEF Pr!Init, Pr!PriceOf, Pr!BestPrice, Pr!Sides
    <3> QED BY <3>1 DEF Pr!Init, Pr!PriceIsCurrent
  <2>4. PendingIsStale /\ PageIsDeleted
    BY DEF Pr!Init, PendingIsStale, PageIsDeleted
  <2> QED BY <2>2, <2>3, <2>4 DEF PricesInv
<1>2. PricesInv /\ [Pr!Next]_(Pr!vars) => PricesInv'
  BY PricesTypedStep, PriceStep, PendingStep, PageStep DEF PricesInv
<1> QED BY <1>1, <1>2, PTL DEF Pr!Spec

\* Every variable of the prices has its type.
LEMMA PricesTypes == Pr!Spec => []Pr!TypeOK
<1>1. PricesInv => Pr!TypeOK
  BY DEF PricesInv, PricesTyped, PricesSteps, Pr!TypeOK
<1> QED BY <1>1, PricesInvariant, PTL

\* For any requests and orders: the caches are out of date for the named reasons only,
\* and the quotes of a book are fair.
LEMMA QuotesKept == Pr!Spec => []Pr!QuotesHold
<1>1. PricesInv => Pr!QuotesHold
  <2> SUFFICES ASSUME PricesInv PROVE Pr!QuotesHold
    OBVIOUS
  <2>1. Pr!PriceIsCurrent /\ Pr!PageIsCurrent
    BY DEF PricesInv, PageIsDeleted, Pr!PageIsCurrent
  <2>2. editable => market \in Pr!Books
    BY DEF PricesInv, PricesTyped, Pr!Markets
  <2>3. Pr!FairQuotes
    BY <2>2, BooksAreFair DEF Pr!FairQuotes
  <2> QED BY <2>1, <2>3 DEF Pr!QuotesHold
<1> QED BY <1>1, PricesInvariant, PTL

-------------------------------------------------------------------------------
(* SIGN-IN.  The lock makes one verification at a time; what the table says  *)
(* of the attempts is what was compared, because every comparison that       *)
(* counts has written its row before the next one reads it.                  *)

(* The invariant *)

SignInSteps == {"idle", "send", "insert", "read", "count", "compare", "mark", "approve", "approved",
          "put", "token", "row", "delete", "find", "create", "bonus", "done"}

SignInTyped ==
    /\ channel \in {"mobile", "email"}
    /\ kind \in [Requests -> {"send", "verify", "put", "token", "sid"}]
    /\ pc \in [Requests -> SignInSteps]
    /\ compared \in [Si!Codes -> Nat] /\ used \in [Si!Codes -> Nat] /\ entered \subseteq Si!Codes
    /\ Si!TypeOK

\* Which handler is at which step, and what it has by then.
StepsFit ==
    \A r \in Requests :
        /\ pc[r] \in {"send", "insert"} => kind[r] = "send"
        /\ pc[r] \in {"read", "count", "compare", "mark"} => kind[r] = "verify"
        /\ pc[r] \in {"approve", "approved", "put"} => kind[r] = "sid"
        /\ pc[r] = "token" => kind[r] = "token"
        /\ pc[r] \in {"row", "delete"} => kind[r] \in {"put", "sid"}
        /\ pc[r] \in {"find", "create", "bonus"} => kind[r] \in {"put", "token", "sid"}
        /\ pc[r] = "compare" => copy[r] # None
        /\ pc[r] = "mark" => copy[r] # None /\ copy[r].otp \in entered
        /\ pc[r] = "bonus" => accounts # <<>>

Clean(whats) == odd \intersect whats = {}

\* Who verifies a number holds request_otp, who puts a user under his name holds
\* adding_user, unless the lock lapsed.
LocksHeld ==
    Clean({"lapsed"}) =>
        /\ \A r \in Si!Verifying : channel = "mobile" => lock["otp"] = r
        /\ \A r \in Si!Putting : kind[r] # "token" => lock["user"] = r

OneVerifies == Clean({"lapsed", "unlocked"}) => \A r, q \in Si!Verifying : r = q
OnePuts == Clean({"lapsed", "twoNames"}) => \A r, q \in Si!Putting : r = q

\* Where the one sign-up under way is, and what it has done so far.
AccountBuilt ==
    Clean({"lapsed", "twoNames"}) =>
        /\ accounts \in {<<>>, <<0>>, <<1>>}
        /\ \A r \in Requests : pc[r] = "create" => accounts = <<>>
        /\ \A r \in Requests : pc[r] = "bonus" => accounts = <<0>>
        /\ accounts = <<0>> => "broken" \in odd \/ \E r \in Requests : pc[r] = "bonus"

\* A code that is still to be sent is nowhere.
Unsent == {r \in Requests : kind[r] = "send" /\ pc[r] \in {"idle", "send", "insert"}}
FreshCodes ==
    \A r \in Unsent :
        /\ compared[r] = 0 /\ used[r] = 0
        /\ \A row \in temp \union replica : row.otp # r
        /\ \A q \in Requests : copy[q] # None => copy[q].otp # r

OneRow == Clean({"twoRows"}) => \A x, y \in temp : x = y

\* The attempts of a row count the comparisons with its code, those of the row a
\* request has read the ones before its own.
AttemptsCount ==
    Clean({"stale", "lapsed", "unlocked", "twoRows"}) =>
        /\ \A c \in Si!Codes : compared[c] < Si!RetryLimit
        /\ \A row \in temp : compared[row.otp] <= row.attempt
        /\ \A r \in Requests : pc[r] \in {"count", "compare"} /\ copy[r] # None =>
              /\ compared[copy[r].otp] <= copy[r].attempt
              /\ \A row \in temp :
                    IF pc[r] = "count" THEN row.otp # copy[r].otp => compared[row.otp] = 0
                    ELSE row.otp = copy[r].otp /\ copy[r].attempt < Si!RetryLimit
                             => row.attempt > copy[r].attempt

\* A code that was exchanged has no row any more.
UsedIsGone ==
    Clean({"stale", "lapsed"}) =>
        /\ \A c \in Si!Codes : used[c] <= 1
        /\ \A row \in temp : used[row.otp] = 0
        /\ \A r \in Requests :
              kind[r] = "put" /\ pc[r] = "delete" /\ copy[r] # None => used[copy[r].otp] = 0

-------------------------------------------------------------------------------
(* Rows *)

\* What a request reads: a row of the replica, if there is one.
LEMMA ReadIs ==
    ASSUME SignInTyped, NEW r \in Requests, Si!SendRead(r) \/ Si!VerifyRead(r) \/ Si!PutRead(r)
    PROVE  /\ copy' \in [Requests -> Si!Row \union {None}]
           /\ \A q \in Requests : q # r => copy'[q] = copy[q]
           /\ copy'[r] \in replica \/ copy'[r] = None
           /\ "stale" \in odd' \/ replica = temp
           /\ odd \subseteq odd' /\ odd' \subseteq odd \union {"stale"}
<1>1. copy \in [Requests -> Si!Row \union {None}] /\ replica \subseteq Si!Row
  BY DEF SignInTyped, Si!TypeOK
<1>2. PICK to : Si!ReadRow(r, to)
  BY DEF Si!SendRead, Si!VerifyRead, Si!PutRead
<1>3. odd' = odd \union {o \in {"stale"} : replica # temp}
  BY <1>2 DEF Si!ReadRow, Si!Mark
<1>4. CASE replica = {}
  BY <1>1, <1>2, <1>3, <1>4 DEF Si!ReadRow
<1>5. CASE replica # {}
  <2>1. PICK row \in replica : copy' = [copy EXCEPT ![r] = row]
    BY <1>2, <1>5 DEF Si!ReadRow
  <2> QED BY <1>1, <1>3, <2>1
<1> QED BY <1>4, <1>5

LEMMA RowFields ==
    ASSUME NEW row \in Si!Row
    PROVE  row.otp \in Si!Codes /\ row.attempt \in 0 .. 3 /\ row.verified \in BOOLEAN /\ row # None
BY SignInAssumption DEF Si!Row, Si!RetryLimit

\* The updates of a row.
LEMMA CountedRow ==
    ASSUME NEW row \in Si!Row, NEW n \in 0 .. 3
    PROVE  /\ [row EXCEPT !.attempt = n] \in Si!Row
           /\ [row EXCEPT !.attempt = n].otp = row.otp
           /\ [row EXCEPT !.attempt = n].attempt = n
           /\ [row EXCEPT !.attempt = n].verified = row.verified
BY DEF Si!Row, Si!RetryLimit

LEMMA MarkedRow ==
    ASSUME NEW row \in Si!Row
    PROVE  /\ [row EXCEPT !.verified = TRUE] \in Si!Row
           /\ [row EXCEPT !.verified = TRUE].otp = row.otp
           /\ [row EXCEPT !.verified = TRUE].attempt = row.attempt
BY DEF Si!Row

LEMMA OlderRow ==
    ASSUME NEW row \in Si!Row
    PROVE  /\ Si!Older(row) \in Si!Row
           /\ Si!Older(row).otp = row.otp
           /\ Si!Older(row).attempt = row.attempt
           /\ Si!Older(row).verified = row.verified
<1>1. row # None
  BY RowFields
<1>2. (IF row.age = 4 THEN 4 ELSE row.age + 1) \in 1 .. 4
  BY DEF Si!Row
<1> QED BY <1>1, <1>2 DEF Si!Row, Si!Older

\* What the time does to the rows, apart from their age.
LEMMA TickIs ==
    ASSUME SignInTyped, Si!Tick
    PROVE  /\ temp' \subseteq Si!Row /\ replica' \subseteq Si!Row
           /\ copy' \in [Requests -> Si!Row \union {None}]
           /\ \A row \in temp' : \E old \in temp :
                 row.otp = old.otp /\ row.attempt = old.attempt /\ row.verified = old.verified
           /\ \A row \in replica' : \E old \in replica : row.otp = old.otp
           /\ \A r \in Requests : copy'[r] = None <=> copy[r] = None
           /\ \A r \in Requests : copy[r] # None =>
                 copy'[r].otp = copy[r].otp /\ copy'[r].attempt = copy[r].attempt
<1>1. /\ temp \subseteq Si!Row /\ replica \subseteq Si!Row
      /\ copy \in [Requests -> Si!Row \union {None}]
  BY DEF SignInTyped, Si!TypeOK
<1>2. /\ temp' = {Si!Older(row) : row \in temp} /\ replica' = {Si!Older(row) : row \in replica}
      /\ copy' = [r \in Requests |-> Si!Older(copy[r])]
  BY DEF Si!Tick
<1>3. Si!Older(None) = None
  BY DEF Si!Older
<1>4. ASSUME NEW r \in Requests
      PROVE  /\ copy'[r] \in Si!Row \union {None}
             /\ copy'[r] = None <=> copy[r] = None
             /\ copy[r] # None =>
                   copy'[r].otp = copy[r].otp /\ copy'[r].attempt = copy[r].attempt
  <2>1. CASE copy[r] = None
    BY <1>2, <1>3, <2>1
  <2>2. CASE copy[r] # None
    <3>1. copy[r] \in Si!Row /\ copy'[r] = Si!Older(copy[r])
      BY <1>1, <1>2, <2>2
    <3> QED BY <3>1, <2>2, OlderRow, RowFields
  <2> QED BY <2>1, <2>2
<1> QED BY <1>1, <1>2, <1>4, OlderRow

\* What a count does to the rows: the attempts of all are those of the row read and one.
LEMMA CountIs ==
    ASSUME SignInTyped, NEW r \in Requests, Si!VerifyCount(r)
    PROVE  /\ temp' \subseteq Si!Row /\ copy[r] \in Si!Row /\ Si!Counted(copy[r]) \in 0 .. 3
           /\ \A row \in temp' : row.attempt = Si!Counted(copy[r]) /\ \E old \in temp :
                 row.otp = old.otp /\ row.verified = old.verified
<1>1. temp \subseteq Si!Row /\ copy[r] \in Si!Row
  BY DEF SignInTyped, Si!TypeOK, Si!VerifyCount
<1>2. Si!Counted(copy[r]) \in 0 .. 3
  BY <1>1, RowFields DEF Si!Counted, Si!RetryLimit
<1>3. temp' = {[row EXCEPT !.attempt = Si!Counted(copy[r])] : row \in temp}
  BY DEF Si!VerifyCount
<1>4. ASSUME NEW row \in temp'
      PROVE  /\ row \in Si!Row /\ row.attempt = Si!Counted(copy[r])
             /\ \E old \in temp : row.otp = old.otp /\ row.verified = old.verified
  <2>1. PICK old \in temp : row = [old EXCEPT !.attempt = Si!Counted(copy[r])]
    BY <1>3, <1>4
  <2> QED BY <1>1, <1>2, <2>1, CountedRow
<1> QED BY <1>1, <1>2, <1>4

LEMMA MarkIs ==
    ASSUME SignInTyped, NEW r \in Requests, Si!VerifyMark(r)
    PROVE  /\ temp' \subseteq Si!Row
           /\ \A row \in temp' : \E old \in temp :
                 row.otp = old.otp /\ row.attempt = old.attempt
<1>1. temp \subseteq Si!Row
  BY DEF SignInTyped, Si!TypeOK
<1>2. temp' = {[row EXCEPT !.verified = TRUE] : row \in temp}
  BY DEF Si!VerifyMark
<1> QED BY <1>1, <1>2, MarkedRow


\* The two locks are their holders' until they lapse.
LEMMA LocksStep ==
    ASSUME SignInTyped, StepsFit, LocksHeld, [Si!Next]_(Si!vars)
    PROVE  LocksHeld'
<1> USE SignInAssumption
<1>1. CASE UNCHANGED Si!vars
  BY <1>1 DEF Si!rows, Si!history, SignInTyped, StepsFit, LocksHeld, Si!TypeOK, Si!Verifying, Si!Putting,
      Clean, Si!Locks, SignInSteps, Si!vars
<1>2. ASSUME NEW r \in Requests,
             Si!SendRead(r) \/ Si!SendRefuse(r) \/ Si!SendDelete(r) \/ Si!SendInsert(r)
      PROVE  LocksHeld'
  BY <1>2 DEF Si!SendRead, Si!SendRefuse, Si!SendDelete, Si!SendInsert, Si!At, Si!Go, Si!ReadRow, Si!Mark,
      Si!rows, Si!history, SignInTyped, StepsFit, LocksHeld, Si!TypeOK, Si!Verifying, Si!Putting, Clean,
      Si!Locks, SignInSteps
<1>3. ASSUME NEW r \in Requests,
             Si!VerifyLock(r) \/ Si!VerifyRead(r)
      PROVE  LocksHeld'
  BY <1>3 DEF Si!VerifyLock, Si!VerifyRead, Si!At, Si!Go, Si!Mark, Si!Lock, Si!ReadRow, Si!rows, Si!history,
      SignInTyped, StepsFit, LocksHeld, Si!TypeOK, Si!Verifying, Si!Putting, Clean, Si!Locks, SignInSteps
<1>4. ASSUME NEW r \in Requests,
             Si!VerifyCount(r) \/ Si!VerifyRefuse(r)
      PROVE  LocksHeld'
  BY <1>4 DEF Si!VerifyCount, Si!VerifyRefuse, Si!At, Si!Go, Si!Unlock, Si!Compare, Si!Comparable, Si!rows,
      Si!history, SignInTyped, StepsFit, LocksHeld, Si!TypeOK, Si!Verifying, Si!Putting, Clean, Si!Locks,
      SignInSteps
<1>5. ASSUME NEW r \in Requests,
             Si!VerifyRight(r) \/ Si!VerifyDelete(r) \/ Si!VerifyMark(r)
      PROVE  LocksHeld'
  BY <1>5 DEF Si!VerifyRight, Si!VerifyDelete, Si!VerifyMark, Si!At, Si!Go, Si!Compare, Si!Comparable,
      Si!Mark, Si!Unlock, Si!rows, Si!history, SignInTyped, StepsFit, LocksHeld, Si!TypeOK, Si!Verifying,
      Si!Putting, Clean, Si!Locks, SignInSteps
<1>6. ASSUME NEW r \in Requests,
             Si!ApproveLock(r) \/ Si!ApproveRefuse(r) \/ Si!ApproveRead(r) \/ Si!Approve(r)
      PROVE  LocksHeld'
  BY <1>6 DEF Si!ApproveLock, Si!ApproveRefuse, Si!ApproveRead, Si!Approve, Si!At, Si!Go, Si!Lock,
      Si!Unlock, Si!rows, Si!history, SignInTyped, StepsFit, LocksHeld, Si!TypeOK, Si!Verifying, Si!Putting,
      Clean, Si!Locks, SignInSteps
<1>7. ASSUME NEW r \in Requests,
             Si!PutLock(r) \/ Si!PutToken(r) \/ Si!PutRead(r) \/ Si!PutRefuse(r) \/ Si!PutDelete(r)
      PROVE  LocksHeld'
  BY <1>7 DEF Si!PutLock, Si!PutToken, Si!PutRead, Si!PutRefuse, Si!PutDelete, Si!At, Si!Go, Si!Mark, Si!Lock,
      Si!ReadRow, Si!Unlock, Si!Verified, Si!rows, Si!history, SignInTyped, StepsFit, LocksHeld, Si!TypeOK,
      Si!Verifying, Si!Putting, Clean, Si!Locks, SignInSteps
<1>8. ASSUME NEW r \in Requests,
             Si!PutLogin(r) \/ Si!PutClosed(r) \/ Si!PutFind(r)
      PROVE  LocksHeld'
  BY <1>8 DEF Si!PutLogin, Si!PutClosed, Si!PutFind, Si!At, Si!Go, Si!Unlock, Si!rows, Si!history, SignInTyped,
      StepsFit, LocksHeld, Si!TypeOK, Si!Verifying, Si!Putting, Clean, Si!Locks, SignInSteps
<1>9. ASSUME NEW r \in Requests,
             Si!PutCreate(r) \/ Si!PutBonus(r)
      PROVE  LocksHeld'
  BY <1>9 DEF Si!PutCreate, Si!PutBonus, Si!At, Si!Go, Si!Unlock, Si!rows, Si!history, SignInTyped, StepsFit,
      LocksHeld, Si!TypeOK, Si!Verifying, Si!Putting, Clean, Si!Locks, SignInSteps
<1>10. ASSUME NEW r \in Requests, Si!PutFails(r) PROVE LocksHeld'
  BY <1>10 DEF Si!PutFails, Si!At, Si!Go, Si!Mark, Si!Unlock, Si!rows, Si!history, SignInTyped, StepsFit,
      LocksHeld, Si!TypeOK, Si!Verifying, Si!Putting, Clean, Si!Locks, SignInSteps
<1>11. ASSUME
              Si!Message \/ Si!HookWrites \/ Si!Replicate \/ Si!Tick \/ Si!LockExpire
       PROVE  LocksHeld'
  BY <1>11 DEF Si!Message, Si!HookWrites, Si!Replicate, Si!Tick, Si!LockExpire, Si!Mark, Si!rows,
      Si!history, SignInTyped, StepsFit, LocksHeld, Si!TypeOK, Si!Verifying, Si!Putting, Clean, Si!Locks,
      SignInSteps
<1> QED BY <1>1, <1>2, <1>3, <1>4, <1>5, <1>6, <1>7, <1>8, <1>9, <1>10, <1>11 DEF Si!Next

\* One request verifies at a time.
LEMMA VerifierStep ==
    ASSUME SignInTyped, StepsFit, LocksHeld, OneVerifies, [Si!Next]_(Si!vars)
    PROVE  OneVerifies'
<1> USE SignInAssumption
<1>1. CASE UNCHANGED Si!vars
  BY <1>1 DEF Si!rows, Si!history, SignInTyped, StepsFit, LocksHeld, Si!TypeOK, Si!Verifying,
      OneVerifies, Clean, Si!Locks, SignInSteps, Si!vars
<1>2. ASSUME NEW r \in Requests,
             Si!SendRead(r) \/ Si!SendRefuse(r) \/ Si!SendDelete(r) \/ Si!SendInsert(r)
      PROVE  OneVerifies'
  BY <1>2 DEF Si!SendRead, Si!SendRefuse, Si!SendDelete, Si!SendInsert, Si!At, Si!Go, Si!ReadRow, Si!Mark,
      Si!rows, Si!history, SignInTyped, StepsFit, LocksHeld, Si!TypeOK, Si!Verifying, OneVerifies,
      Clean, Si!Locks, SignInSteps
<1>3. ASSUME NEW r \in Requests,
             Si!VerifyRead(r) \/ Si!VerifyCount(r) \/ Si!VerifyRefuse(r) \/ Si!VerifyRight(r) \/
             Si!VerifyDelete(r) \/ Si!VerifyMark(r)
      PROVE  OneVerifies'
  BY <1>3 DEF Si!VerifyRead, Si!VerifyCount, Si!VerifyRefuse, Si!VerifyRight, Si!VerifyDelete,
      Si!VerifyMark, Si!At, Si!Go, Si!ReadRow, Si!Mark, Si!Unlock, Si!Compare, Si!Comparable, Si!rows, Si!history,
      SignInTyped, StepsFit, LocksHeld, Si!TypeOK, Si!Verifying, OneVerifies, Clean, Si!Locks,
      SignInSteps
<1>4. ASSUME NEW r \in Requests, Si!VerifyLock(r) PROVE OneVerifies'
  <2>1. pc' = [pc EXCEPT ![r] = "read"] /\ r \notin Si!Verifying /\ kind' = kind
    BY <1>4 DEF Si!VerifyLock, Si!At, Si!Go, Si!Verifying
  <2>2. Si!Verifying' = Si!Verifying \union {r}
    BY <2>1, <1>4 DEF Si!Verifying, SignInTyped, Si!VerifyLock
  <2>3. CASE channel = "mobile"
    BY <2>2, <2>3, <1>4 DEF Si!VerifyLock, Si!Lock, LocksHeld, OneVerifies, Clean, SignInTyped, Si!Verifying
  <2>4. CASE channel # "mobile"
    <3>1. Si!Verifying # {} => "unlocked" \in odd'
      BY <2>4, <1>4 DEF Si!VerifyLock, Si!Mark
    <3> QED BY <2>2, <3>1 DEF OneVerifies, Clean
  <2> QED BY <2>3, <2>4
<1>5. ASSUME NEW r \in Requests, Si!ApproveLock(r) PROVE OneVerifies'
  BY <1>5 DEF Si!ApproveLock, Si!At, Si!Go, Si!Lock, Si!rows, Si!history, SignInTyped, StepsFit, LocksHeld,
      Si!TypeOK, Si!Verifying, OneVerifies, Clean, Si!Locks, SignInSteps
<1>6. ASSUME NEW r \in Requests, Si!ApproveRefuse(r) PROVE OneVerifies'
  BY <1>6 DEF Si!ApproveRefuse, Si!At, Si!Go, Si!Unlock, Si!rows, Si!history, SignInTyped, StepsFit,
      LocksHeld, Si!TypeOK, Si!Verifying, OneVerifies, Clean, Si!Locks, SignInSteps
<1>7. ASSUME NEW r \in Requests,
             Si!ApproveRead(r) \/ Si!Approve(r)
      PROVE  OneVerifies'
  BY <1>7 DEF Si!ApproveRead, Si!Approve, Si!At, Si!Go, Si!Unlock, Si!rows, Si!history, SignInTyped, StepsFit,
      LocksHeld, Si!TypeOK, Si!Verifying, OneVerifies, Clean, Si!Locks, SignInSteps
<1>8. ASSUME NEW r \in Requests,
             Si!PutLock(r) \/ Si!PutToken(r) \/ Si!PutRead(r) \/ Si!PutRefuse(r) \/ Si!PutDelete(r)
      PROVE  OneVerifies'
  BY <1>8 DEF Si!PutLock, Si!PutToken, Si!PutRead, Si!PutRefuse, Si!PutDelete, Si!At, Si!Go, Si!Mark, Si!Lock,
      Si!ReadRow, Si!Unlock, Si!Verified, Si!rows, Si!history, SignInTyped, StepsFit, LocksHeld, Si!TypeOK,
      Si!Verifying, OneVerifies, Clean, Si!Locks, SignInSteps
<1>9. ASSUME NEW r \in Requests,
             Si!PutLogin(r) \/ Si!PutClosed(r) \/ Si!PutFind(r) \/ Si!PutCreate(r) \/
             Si!PutBonus(r) \/ Si!PutFails(r)
      PROVE  OneVerifies'
  BY <1>9 DEF Si!PutLogin, Si!PutClosed, Si!PutFind, Si!PutCreate, Si!PutBonus, Si!PutFails, Si!At, Si!Go,
      Si!Unlock, Si!Mark, Si!rows, Si!history, SignInTyped, StepsFit, LocksHeld, Si!TypeOK, Si!Verifying,
      OneVerifies, Clean, Si!Locks, SignInSteps
<1>10. ASSUME
              Si!Message \/ Si!HookWrites \/ Si!Replicate \/ Si!Tick \/ Si!LockExpire
       PROVE  OneVerifies'
  BY <1>10 DEF Si!Message, Si!HookWrites, Si!Replicate, Si!Tick, Si!LockExpire, Si!Mark, Si!rows,
      Si!history, SignInTyped, StepsFit, LocksHeld, Si!TypeOK, Si!Verifying, OneVerifies, Clean,
      Si!Locks, SignInSteps
<1> QED BY <1>1, <1>2, <1>3, <1>4, <1>5, <1>6, <1>7, <1>8, <1>9, <1>10 DEF Si!Next

\* One request puts a user at a time.
LEMMA PutterStep ==
    ASSUME SignInTyped, StepsFit, LocksHeld, OnePuts, [Si!Next]_(Si!vars)
    PROVE  OnePuts'
<1> USE SignInAssumption
<1>1. CASE UNCHANGED Si!vars
  BY <1>1 DEF Si!rows, Si!history, SignInTyped, StepsFit, LocksHeld, Si!TypeOK, Si!Putting, OnePuts,
      Clean, Si!Locks, SignInSteps, Si!vars
<1>2. ASSUME NEW r \in Requests,
             Si!SendRead(r) \/ Si!SendRefuse(r)
      PROVE  OnePuts'
  BY <1>2 DEF Si!SendRead, Si!SendRefuse, Si!At, Si!Go, Si!ReadRow, Si!Mark, Si!rows, Si!history, SignInTyped,
      StepsFit, LocksHeld, Si!TypeOK, Si!Putting, OnePuts, Clean, Si!Locks, SignInSteps
<1>3. ASSUME NEW r \in Requests,
             Si!SendDelete(r) \/ Si!SendInsert(r)
      PROVE  OnePuts'
  BY <1>3 DEF Si!SendDelete, Si!SendInsert, Si!At, Si!Go, Si!Mark, Si!rows, Si!history, SignInTyped, StepsFit,
      LocksHeld, Si!TypeOK, Si!Putting, OnePuts, Clean, Si!Locks, SignInSteps
<1>4. ASSUME NEW r \in Requests,
             Si!VerifyLock(r) \/ Si!VerifyRead(r) \/ Si!VerifyCount(r) \/ Si!VerifyRefuse(r) \/
             Si!VerifyRight(r) \/ Si!VerifyDelete(r) \/ Si!VerifyMark(r)
      PROVE  OnePuts'
  BY <1>4 DEF Si!VerifyLock, Si!VerifyRead, Si!VerifyCount, Si!VerifyRefuse, Si!VerifyRight,
      Si!VerifyDelete, Si!VerifyMark, Si!At, Si!Go, Si!Mark, Si!Lock, Si!ReadRow, Si!Unlock, Si!Compare,
      Si!Comparable, Si!rows, Si!history, SignInTyped, StepsFit, LocksHeld, Si!TypeOK, Si!Putting,
      OnePuts, Clean, Si!Locks, SignInSteps
<1>5. ASSUME NEW r \in Requests,
             Si!ApproveLock(r) \/ Si!ApproveRefuse(r)
      PROVE  OnePuts'
  BY <1>5 DEF Si!ApproveLock, Si!ApproveRefuse, Si!At, Si!Go, Si!Lock, Si!Unlock, Si!rows, Si!history,
      SignInTyped, StepsFit, LocksHeld, Si!TypeOK, Si!Putting, OnePuts, Clean, Si!Locks, SignInSteps
<1>6. ASSUME NEW r \in Requests,
             Si!ApproveRead(r) \/ Si!Approve(r)
      PROVE  OnePuts'
  BY <1>6 DEF Si!ApproveRead, Si!Approve, Si!At, Si!Go, Si!Unlock, Si!rows, Si!history, SignInTyped, StepsFit,
      LocksHeld, Si!TypeOK, Si!Putting, OnePuts, Clean, Si!Locks, SignInSteps
<1>7. ASSUME NEW r \in Requests,
             Si!PutToken(r) \/ Si!PutRead(r) \/ Si!PutRefuse(r) \/ Si!PutDelete(r)
      PROVE  OnePuts'
  BY <1>7 DEF Si!PutToken, Si!PutRead, Si!PutRefuse, Si!PutDelete, Si!At, Si!Go, Si!ReadRow, Si!Mark,
      Si!Unlock, Si!Verified, Si!rows, Si!history, SignInTyped, StepsFit, LocksHeld, Si!TypeOK, Si!Putting,
      OnePuts, Clean, Si!Locks, SignInSteps
<1>8. ASSUME NEW r \in Requests, Si!PutLock(r) PROVE OnePuts'
  <2>1. Si!Putting' = Si!Putting \union {r} /\ kind' = kind /\ odd \subseteq odd'
    BY <1>8 DEF Si!PutLock, Si!At, Si!Go, Si!Putting, SignInTyped, Si!Mark
  <2>2. CASE \E q \in Si!Putting : "token" \in {kind[q], kind[r]}
    BY <2>2, <1>8 DEF Si!PutLock, Si!Mark, OnePuts, Clean
  <2>3. CASE kind[r] # "token" /\ \A q \in Si!Putting : kind[q] # "token"
    BY <2>1, <2>3, <1>8 DEF Si!PutLock, Si!Lock, LocksHeld, OnePuts, Clean, Si!Putting
  <2>4. CASE Si!Putting = {}
    BY <2>1, <2>4 DEF OnePuts
  <2> QED BY <2>2, <2>3, <2>4
<1>9. ASSUME NEW r \in Requests,
             Si!PutLogin(r) \/ Si!PutClosed(r) \/ Si!PutFind(r) \/ Si!PutCreate(r) \/
             Si!PutBonus(r) \/ Si!PutFails(r)
      PROVE  OnePuts'
  BY <1>9 DEF Si!PutLogin, Si!PutClosed, Si!PutFind, Si!PutCreate, Si!PutBonus, Si!PutFails, Si!At, Si!Go,
      Si!Unlock, Si!Mark, Si!rows, Si!history, SignInTyped, StepsFit, LocksHeld, Si!TypeOK, Si!Putting,
      OnePuts, Clean, Si!Locks, SignInSteps
<1>10. ASSUME
              Si!Message \/ Si!HookWrites \/ Si!Replicate \/ Si!Tick \/ Si!LockExpire
       PROVE  OnePuts'
  BY <1>10 DEF Si!Message, Si!HookWrites, Si!Replicate, Si!Tick, Si!LockExpire, Si!Mark, Si!rows,
      Si!history, SignInTyped, StepsFit, LocksHeld, Si!TypeOK, Si!Putting, OnePuts, Clean, Si!Locks,
      SignInSteps
<1> QED BY <1>1, <1>2, <1>3, <1>4, <1>5, <1>6, <1>7, <1>8, <1>9, <1>10 DEF Si!Next

\* An account is created when there is none, and gets its bonus before another request
\* looks for it.
LEMMA SignInAccountStep ==
    ASSUME SignInTyped, StepsFit, OnePuts, AccountBuilt, [Si!Next]_(Si!vars)
    PROVE  AccountBuilt'
<1>1. CASE UNCHANGED Si!vars
  BY <1>1 DEF Si!rows, Si!history, SignInTyped, StepsFit, Si!TypeOK, Si!Putting, OnePuts,
      AccountBuilt, Clean, SignInSteps, Si!vars
<1>2. ASSUME NEW r \in Requests,
             Si!SendRead(r) \/ Si!SendRefuse(r) \/ Si!SendDelete(r) \/ Si!SendInsert(r)
      PROVE  AccountBuilt'
  BY <1>2 DEF Si!SendRead, Si!SendRefuse, Si!SendDelete, Si!SendInsert, Si!At, Si!Go, Si!ReadRow, Si!Mark,
      Si!rows, Si!history, SignInTyped, StepsFit, Si!TypeOK, Si!Putting, OnePuts, AccountBuilt, Clean,
      SignInSteps
<1>3. ASSUME NEW r \in Requests,
             Si!VerifyLock(r) \/ Si!VerifyRead(r) \/ Si!VerifyCount(r) \/ Si!VerifyRefuse(r) \/
             Si!VerifyRight(r) \/ Si!VerifyDelete(r) \/ Si!VerifyMark(r)
      PROVE  AccountBuilt'
  BY <1>3 DEF Si!VerifyLock, Si!VerifyRead, Si!VerifyCount, Si!VerifyRefuse, Si!VerifyRight,
      Si!VerifyDelete, Si!VerifyMark, Si!At, Si!Go, Si!Mark, Si!Lock, Si!ReadRow, Si!Unlock, Si!Compare,
      Si!Comparable, Si!rows, Si!history, SignInTyped, StepsFit, Si!TypeOK, Si!Putting, OnePuts,
      AccountBuilt, Clean, SignInSteps
<1>4. ASSUME NEW r \in Requests,
             Si!ApproveLock(r) \/ Si!ApproveRefuse(r) \/ Si!ApproveRead(r) \/ Si!Approve(r)
      PROVE  AccountBuilt'
  BY <1>4 DEF Si!ApproveLock, Si!ApproveRefuse, Si!ApproveRead, Si!Approve, Si!At, Si!Go, Si!Lock,
      Si!Unlock, Si!rows, Si!history, SignInTyped, StepsFit, Si!TypeOK, Si!Putting, OnePuts,
      AccountBuilt, Clean, SignInSteps
<1>5. ASSUME NEW r \in Requests,
             Si!PutLock(r) \/ Si!PutToken(r) \/ Si!PutRead(r) \/ Si!PutRefuse(r) \/ Si!PutDelete(r)
      PROVE  AccountBuilt'
  BY <1>5 DEF Si!PutLock, Si!PutToken, Si!PutRead, Si!PutRefuse, Si!PutDelete, Si!At, Si!Go, Si!Mark, Si!Lock,
      Si!ReadRow, Si!Unlock, Si!Verified, Si!rows, Si!history, SignInTyped, StepsFit, Si!TypeOK, Si!Putting,
      OnePuts, AccountBuilt, Clean, SignInSteps
<1>6. ASSUME NEW r \in Requests,
             Si!PutLogin(r) \/ Si!PutClosed(r) \/ Si!PutFind(r) \/ Si!PutBonus(r) \/ Si!PutFails(r)
      PROVE  AccountBuilt'
  BY <1>6 DEF Si!PutLogin, Si!PutClosed, Si!PutFind, Si!PutBonus, Si!PutFails, Si!At, Si!Go, Si!Unlock,
      Si!Mark, Si!rows, Si!history, SignInTyped, StepsFit, Si!TypeOK, Si!Putting, OnePuts, AccountBuilt,
      Clean, SignInSteps
<1>7. ASSUME NEW r \in Requests, Si!PutCreate(r) PROVE AccountBuilt'
  <2>1. /\ pc[r] = "create" /\ pc' = [pc EXCEPT ![r] = "bonus"] /\ accounts' = Append(accounts, 0)
        /\ odd' = odd
    BY <1>7 DEF Si!PutCreate, Si!At, Si!Go, Si!history
  <2>2. accounts = <<>> => accounts' = <<0>>
    BY <2>1
  <2> QED BY <2>1, <2>2 DEF SignInTyped, OnePuts, Si!Putting, AccountBuilt, Clean
<1>8. ASSUME
             Si!Message \/ Si!HookWrites \/ Si!Replicate \/ Si!Tick \/ Si!LockExpire
      PROVE  AccountBuilt'
  BY <1>8 DEF Si!Message, Si!HookWrites, Si!Replicate, Si!Tick, Si!LockExpire, Si!Mark, Si!rows, Si!history,
      SignInTyped, StepsFit, Si!TypeOK, Si!Putting, OnePuts, AccountBuilt, Clean, SignInSteps
<1> QED BY <1>1, <1>2, <1>3, <1>4, <1>5, <1>6, <1>7, <1>8 DEF Si!Next

\* A code is sent once.
LEMMA FreshStep ==
    ASSUME SignInTyped, StepsFit, FreshCodes, [Si!Next]_(Si!vars)
    PROVE  FreshCodes'
<1> USE SignInAssumption
<1>1. CASE UNCHANGED Si!vars
  BY <1>1 DEF Si!rows, Si!history, SignInTyped, StepsFit, Si!TypeOK, FreshCodes, Unsent, Si!Codes,
      SignInSteps, Si!vars
<1>2. ASSUME NEW r \in Requests,
             Si!SendRefuse(r) \/ Si!SendDelete(r) \/ Si!SendInsert(r)
      PROVE  FreshCodes'
  BY <1>2 DEF Si!SendRefuse, Si!SendDelete, Si!SendInsert, Si!At, Si!Go, Si!Mark, Si!rows, Si!history,
      SignInTyped, StepsFit, Si!TypeOK, FreshCodes, Unsent, Si!Codes, SignInSteps
<1>3. ASSUME NEW r \in Requests, Si!SendRead(r) PROVE FreshCodes'
  <2>1. /\ copy' \in [Requests -> Si!Row \union {None}] /\ ("stale" \in odd' \/ replica = temp)
        /\ \A q \in Requests : q # r => copy'[q] = copy[q]
        /\ copy'[r] \in replica \/ copy'[r] = None
        /\ odd \subseteq odd'
    BY <1>3, ReadIs
  <2>2. PICK to \in {"send", "count", "delete"} : pc' = [pc EXCEPT ![r] = to] /\ to = "send" /\ kind[r] = "send" /\ pc[r] = "idle"
    BY <1>3 DEF Si!SendRead, Si!ReadRow, Si!At, Si!Go
  <2>3. UNCHANGED <<kind, temp, replica, compared, used>>
    BY <1>3 DEF Si!SendRead
  <2>4. Unsent' = Unsent
    BY <2>2, <2>3 DEF SignInTyped, Unsent
  <2> QED BY <2>1, <2>3, <2>4 DEF FreshCodes
<1>4. ASSUME NEW r \in Requests,
             Si!VerifyLock(r) \/ Si!VerifyRefuse(r) \/ Si!VerifyRight(r) \/ Si!VerifyDelete(r)
      PROVE  FreshCodes'
  BY <1>4 DEF Si!VerifyLock, Si!VerifyRefuse, Si!VerifyRight, Si!VerifyDelete, Si!At, Si!Go, Si!Mark,
      Si!Lock, Si!Unlock, Si!Compare, Si!Comparable, Si!rows, Si!history, SignInTyped, StepsFit, Si!TypeOK,
      FreshCodes, Unsent, Si!Codes, SignInSteps
<1>5. ASSUME NEW r \in Requests, Si!VerifyRead(r) PROVE FreshCodes'
  <2>1. /\ copy' \in [Requests -> Si!Row \union {None}] /\ ("stale" \in odd' \/ replica = temp)
        /\ \A q \in Requests : q # r => copy'[q] = copy[q]
        /\ copy'[r] \in replica \/ copy'[r] = None
        /\ odd \subseteq odd'
    BY <1>5, ReadIs
  <2>2. PICK to \in {"send", "count", "delete"} : pc' = [pc EXCEPT ![r] = to] /\ to = "count" /\ kind[r] = "verify" /\ pc[r] = "read"
    BY <1>5 DEF Si!VerifyRead, Si!ReadRow, Si!At, Si!Go
  <2>3. UNCHANGED <<kind, temp, replica, compared, used>>
    BY <1>5 DEF Si!VerifyRead
  <2> QED BY <2>1, <2>2, <2>3 DEF SignInTyped, Si!TypeOK, SignInSteps, StepsFit, FreshCodes, Unsent
<1>6. ASSUME NEW r \in Requests, Si!VerifyCount(r) PROVE FreshCodes'
  <2>1. /\ UNCHANGED <<kind, replica, copy, compared, used, entered, odd>>
        /\ pc' = [pc EXCEPT ![r] = "compare"] /\ pc[r] = "count" /\ copy[r] # None
    BY <1>6 DEF Si!VerifyCount, Si!At, Si!Go, Si!history
  <2>2. /\ temp' \subseteq Si!Row /\ copy[r] \in Si!Row /\ Si!Counted(copy[r]) \in 0 .. 3
        /\ \A row \in temp' : row.attempt = Si!Counted(copy[r]) /\ \E old \in temp :
              row.otp = old.otp /\ row.verified = old.verified
    BY <1>6, CountIs
  <2> QED BY <2>1, <2>2 DEF SignInTyped, FreshCodes, Unsent
<1>7. ASSUME NEW r \in Requests, Si!VerifyMark(r) PROVE FreshCodes'
  <2>1. /\ UNCHANGED <<kind, replica, copy, compared, used, entered>> /\ odd \subseteq odd'
        /\ pc' = [pc EXCEPT ![r] = "done"]
    BY <1>7 DEF Si!VerifyMark, Si!At, Si!Go, Si!Mark
  <2>2. /\ temp' \subseteq Si!Row
        /\ \A row \in temp' : \E old \in temp : row.otp = old.otp /\ row.attempt = old.attempt
    BY <1>7, MarkIs
  <2> QED BY <2>1, <2>2 DEF SignInTyped, FreshCodes, Unsent
<1>8. ASSUME NEW r \in Requests,
             Si!ApproveLock(r) \/ Si!ApproveRefuse(r) \/ Si!ApproveRead(r) \/ Si!Approve(r)
      PROVE  FreshCodes'
  BY <1>8 DEF Si!ApproveLock, Si!ApproveRefuse, Si!ApproveRead, Si!Approve, Si!At, Si!Go, Si!Lock,
      Si!Unlock, Si!rows, Si!history, SignInTyped, StepsFit, Si!TypeOK, FreshCodes, Unsent, Si!Codes,
      SignInSteps
<1>9. ASSUME NEW r \in Requests,
             Si!PutLock(r) \/ Si!PutToken(r)
      PROVE  FreshCodes'
  BY <1>9 DEF Si!PutLock, Si!PutToken, Si!At, Si!Go, Si!Mark, Si!Lock, Si!rows, Si!history, SignInTyped, StepsFit,
      Si!TypeOK, FreshCodes, Unsent, Si!Codes, SignInSteps
<1>10. ASSUME NEW r \in Requests, Si!PutRefuse(r) PROVE FreshCodes'
  BY <1>10 DEF Si!PutRefuse, Si!At, Si!Go, Si!Unlock, Si!rows, Si!history, SignInTyped, StepsFit, Si!TypeOK,
      FreshCodes, Unsent, Si!Codes, SignInSteps
<1>11. ASSUME NEW r \in Requests, Si!PutDelete(r) PROVE FreshCodes'
  BY <1>11 DEF Si!PutDelete, Si!At, Si!Go, Si!Verified, Si!rows, Si!history, SignInTyped, StepsFit, Si!TypeOK,
      FreshCodes, Unsent, Si!Codes, SignInSteps
<1>12. ASSUME NEW r \in Requests, Si!PutRead(r) PROVE FreshCodes'
  <2>1. /\ copy' \in [Requests -> Si!Row \union {None}] /\ ("stale" \in odd' \/ replica = temp)
        /\ \A q \in Requests : q # r => copy'[q] = copy[q]
        /\ copy'[r] \in replica \/ copy'[r] = None
        /\ odd \subseteq odd'
    BY <1>12, ReadIs
  <2>2. PICK to \in {"send", "count", "delete"} : pc' = [pc EXCEPT ![r] = to] /\ to = "delete" /\ pc[r] = "row"
    BY <1>12 DEF Si!PutRead, Si!ReadRow, Si!At, Si!Go
  <2>3. UNCHANGED <<kind, temp, replica, compared, used>>
    BY <1>12 DEF Si!PutRead
  <2> QED BY <2>1, <2>2, <2>3 DEF SignInTyped, Si!TypeOK, SignInSteps, StepsFit, FreshCodes, Unsent
<1>13. ASSUME NEW r \in Requests,
              Si!PutLogin(r) \/ Si!PutClosed(r) \/ Si!PutFind(r)
       PROVE  FreshCodes'
  BY <1>13 DEF Si!PutLogin, Si!PutClosed, Si!PutFind, Si!At, Si!Go, Si!Unlock, Si!rows, Si!history, SignInTyped,
      StepsFit, Si!TypeOK, FreshCodes, Unsent, Si!Codes, SignInSteps
<1>14. ASSUME NEW r \in Requests, Si!PutCreate(r) PROVE FreshCodes'
  BY <1>14 DEF Si!PutCreate, Si!At, Si!Go, Si!rows, Si!history, SignInTyped, StepsFit, Si!TypeOK,
      FreshCodes, Unsent, Si!Codes, SignInSteps
<1>15. ASSUME NEW r \in Requests, Si!PutBonus(r) PROVE FreshCodes'
  BY <1>15 DEF Si!PutBonus, Si!At, Si!Go, Si!Unlock, Si!rows, Si!history, SignInTyped, StepsFit, Si!TypeOK,
      FreshCodes, Unsent, Si!Codes, SignInSteps
<1>16. ASSUME NEW r \in Requests, Si!PutFails(r) PROVE FreshCodes'
  BY <1>16 DEF Si!PutFails, Si!At, Si!Go, Si!Mark, Si!Unlock, Si!rows, Si!history, SignInTyped, StepsFit,
      Si!TypeOK, FreshCodes, Unsent, Si!Codes, SignInSteps
<1>17. ASSUME
              Si!Message \/ Si!HookWrites \/ Si!Replicate \/ Si!LockExpire
       PROVE  FreshCodes'
  BY <1>17 DEF Si!Message, Si!HookWrites, Si!Replicate, Si!LockExpire, Si!Mark, Si!rows, Si!history,
      SignInTyped, StepsFit, Si!TypeOK, FreshCodes, Unsent, Si!Codes, SignInSteps
<1>18. ASSUME Si!Tick PROVE FreshCodes'
  <2>1. UNCHANGED <<kind, pc, compared, used, entered, odd>>
    BY <1>18 DEF Si!Tick, Si!history
  <2>2. /\ temp' \subseteq Si!Row /\ replica' \subseteq Si!Row /\ copy' \in [Requests -> Si!Row \union {None}]
        /\ \A row \in temp' : \E old \in temp :
              row.otp = old.otp /\ row.attempt = old.attempt /\ row.verified = old.verified
        /\ \A row \in replica' : \E old \in replica : row.otp = old.otp
        /\ \A r \in Requests : copy'[r] = None <=> copy[r] = None
        /\ \A r \in Requests : copy[r] # None =>
              copy'[r].otp = copy[r].otp /\ copy'[r].attempt = copy[r].attempt
    BY <1>18, TickIs
  <2> QED BY <2>1, <2>2 DEF FreshCodes, Unsent
<1> QED BY <1>1, <1>2, <1>3, <1>4, <1>5, <1>6, <1>7, <1>8, <1>9, <1>10, <1>11,
    <1>12, <1>13, <1>14, <1>15, <1>16, <1>17, <1>18 DEF Si!Next

\* A second row is marked.
LEMMA RowStep ==
    ASSUME OneRow, [Si!Next]_(Si!vars)
    PROVE  OneRow'
<1>1. CASE UNCHANGED Si!vars
  BY <1>1 DEF Si!rows, Si!history, OneRow, Clean, Si!vars
<1>2. ASSUME NEW r \in Requests,
             Si!SendRead(r) \/ Si!SendRefuse(r) \/ Si!SendDelete(r) \/ Si!SendInsert(r)
      PROVE  OneRow'
  BY <1>2 DEF Si!SendRead, Si!SendRefuse, Si!SendDelete, Si!SendInsert, Si!At, Si!Go, Si!ReadRow, Si!Mark,
      Si!rows, Si!history, OneRow, Clean
<1>3. ASSUME NEW r \in Requests,
             Si!VerifyLock(r) \/ Si!VerifyRead(r) \/ Si!VerifyCount(r) \/ Si!VerifyRefuse(r)
      PROVE  OneRow'
  BY <1>3 DEF Si!VerifyLock, Si!VerifyRead, Si!VerifyCount, Si!VerifyRefuse, Si!At, Si!Go, Si!Mark, Si!Lock,
      Si!ReadRow, Si!Unlock, Si!Compare, Si!Comparable, Si!rows, Si!history, OneRow, Clean
<1>4. ASSUME NEW r \in Requests,
             Si!VerifyRight(r) \/ Si!VerifyDelete(r)
      PROVE  OneRow'
  BY <1>4 DEF Si!VerifyRight, Si!VerifyDelete, Si!At, Si!Go, Si!Compare, Si!Comparable, Si!rows, Si!history,
      OneRow, Clean
<1>5. ASSUME NEW r \in Requests, Si!VerifyMark(r) PROVE OneRow'
  BY <1>5 DEF Si!VerifyMark, Si!At, Si!Go, Si!Mark, Si!Unlock, Si!rows, Si!history, OneRow, Clean
<1>6. ASSUME NEW r \in Requests,
             Si!ApproveLock(r) \/ Si!ApproveRefuse(r) \/ Si!ApproveRead(r) \/ Si!Approve(r)
      PROVE  OneRow'
  BY <1>6 DEF Si!ApproveLock, Si!ApproveRefuse, Si!ApproveRead, Si!Approve, Si!At, Si!Go, Si!Lock,
      Si!Unlock, Si!rows, Si!history, OneRow, Clean
<1>7. ASSUME NEW r \in Requests,
             Si!PutLock(r) \/ Si!PutToken(r) \/ Si!PutRead(r) \/ Si!PutRefuse(r) \/ Si!PutDelete(r)
      PROVE  OneRow'
  BY <1>7 DEF Si!PutLock, Si!PutToken, Si!PutRead, Si!PutRefuse, Si!PutDelete, Si!At, Si!Go, Si!Mark, Si!Lock,
      Si!ReadRow, Si!Unlock, Si!Verified, Si!rows, Si!history, OneRow, Clean
<1>8. ASSUME NEW r \in Requests,
             Si!PutLogin(r) \/ Si!PutClosed(r) \/ Si!PutFind(r) \/ Si!PutCreate(r) \/
             Si!PutBonus(r) \/ Si!PutFails(r)
      PROVE  OneRow'
  BY <1>8 DEF Si!PutLogin, Si!PutClosed, Si!PutFind, Si!PutCreate, Si!PutBonus, Si!PutFails, Si!At, Si!Go,
      Si!Unlock, Si!Mark, Si!rows, Si!history, OneRow, Clean
<1>9. ASSUME
             Si!Message \/ Si!HookWrites \/ Si!Replicate \/ Si!Tick \/ Si!LockExpire
      PROVE  OneRow'
  BY <1>9 DEF Si!Message, Si!HookWrites, Si!Replicate, Si!Tick, Si!LockExpire, Si!Mark, Si!rows, Si!history,
      OneRow, Clean
<1> QED BY <1>1, <1>2, <1>3, <1>4, <1>5, <1>6, <1>7, <1>8, <1>9 DEF Si!Next

\* Nobody else verifies between the reading of a row, the count and the comparison.
LEMMA AttemptsStep ==
    ASSUME SignInTyped, StepsFit, OneVerifies, FreshCodes, OneRow, AttemptsCount, [Si!Next]_(Si!vars)
    PROVE  AttemptsCount'
<1>1. CASE UNCHANGED Si!vars
  BY <1>1 DEF Si!rows, Si!history, SignInTyped, StepsFit, Si!TypeOK, Si!Verifying, OneVerifies,
      FreshCodes, Unsent, OneRow, AttemptsCount, Clean, SignInSteps, Si!RetryLimit, Si!vars
<1>2. ASSUME NEW r \in Requests, Si!SendRead(r) PROVE AttemptsCount'
  BY <1>2 DEF Si!SendRead, Si!At, Si!Go, Si!ReadRow, Si!Mark, Si!rows, Si!history, SignInTyped, StepsFit,
      Si!TypeOK, Si!Verifying, OneVerifies, FreshCodes, Unsent, OneRow, AttemptsCount,
      Clean, SignInSteps, Si!RetryLimit
<1>3. ASSUME NEW r \in Requests, Si!SendRefuse(r) PROVE AttemptsCount'
  BY <1>3 DEF Si!SendRefuse, Si!At, Si!Go, Si!rows, Si!history, SignInTyped, StepsFit, Si!TypeOK, Si!Verifying,
      OneVerifies, FreshCodes, Unsent, OneRow, AttemptsCount, Clean, SignInSteps,
      Si!RetryLimit
<1>4. ASSUME NEW r \in Requests, Si!SendDelete(r) PROVE AttemptsCount'
  BY <1>4 DEF Si!SendDelete, Si!At, Si!Go, Si!rows, Si!history, SignInTyped, StepsFit, Si!TypeOK, Si!Verifying,
      OneVerifies, FreshCodes, Unsent, OneRow, AttemptsCount, Clean, SignInSteps,
      Si!RetryLimit
<1>5. ASSUME NEW r \in Requests, Si!SendInsert(r) PROVE AttemptsCount'
  BY <1>5 DEF Si!SendInsert, Si!At, Si!Go, Si!Mark, Si!rows, Si!history, SignInTyped, StepsFit, Si!TypeOK,
      Si!Verifying, OneVerifies, FreshCodes, Unsent, OneRow, AttemptsCount, Clean,
      SignInSteps, Si!RetryLimit
<1>6. ASSUME NEW r \in Requests, Si!VerifyLock(r) PROVE AttemptsCount'
  BY <1>6 DEF Si!VerifyLock, Si!At, Si!Go, Si!Mark, Si!Lock, Si!rows, Si!history, SignInTyped, StepsFit,
      Si!TypeOK, Si!Verifying, OneVerifies, FreshCodes, Unsent, OneRow, AttemptsCount,
      Clean, SignInSteps, Si!RetryLimit
<1>7. ASSUME NEW r \in Requests, Si!VerifyDelete(r) PROVE AttemptsCount'
  BY <1>7 DEF Si!VerifyDelete, Si!At, Si!Go, Si!rows, Si!history, SignInTyped, StepsFit, Si!TypeOK,
      Si!Verifying, OneVerifies, FreshCodes, Unsent, OneRow, AttemptsCount, Clean,
      SignInSteps, Si!RetryLimit
<1>8. ASSUME NEW r \in Requests, Si!VerifyRead(r) PROVE AttemptsCount'
  <2>1. /\ copy' \in [Requests -> Si!Row \union {None}] /\ ("stale" \in odd' \/ replica = temp)
        /\ \A q \in Requests : q # r => copy'[q] = copy[q]
        /\ copy'[r] \in replica \/ copy'[r] = None
        /\ odd \subseteq odd'
    BY <1>8, ReadIs
  <2>2. PICK to \in {"send", "count", "delete"} : pc' = [pc EXCEPT ![r] = to] /\ to = "count" /\ kind[r] = "verify" /\ pc[r] = "read"
    BY <1>8 DEF Si!VerifyRead, Si!ReadRow, Si!At, Si!Go
  <2>3. UNCHANGED <<kind, temp, replica, compared, used>>
    BY <1>8 DEF Si!VerifyRead
  <2> QED BY <2>1, <2>2, <2>3 DEF SignInTyped, Si!TypeOK, SignInSteps, OneRow, AttemptsCount, Clean, Si!RetryLimit
<1>9. ASSUME NEW r \in Requests, Si!VerifyCount(r) PROVE AttemptsCount'
  <2>1. /\ UNCHANGED <<kind, replica, copy, compared, used, entered, odd>>
        /\ pc' = [pc EXCEPT ![r] = "compare"] /\ pc[r] = "count" /\ copy[r] # None
    BY <1>9 DEF Si!VerifyCount, Si!At, Si!Go, Si!history
  <2>2. /\ temp' \subseteq Si!Row /\ copy[r] \in Si!Row /\ Si!Counted(copy[r]) \in 0 .. 3
        /\ \A row \in temp' : row.attempt = Si!Counted(copy[r]) /\ \E old \in temp :
              row.otp = old.otp /\ row.verified = old.verified
    BY <1>9, CountIs
  <2>3. Si!Counted(copy[r]) = IF copy[r].attempt = 3 THEN 3 ELSE copy[r].attempt + 1
    BY DEF Si!Counted, Si!RetryLimit
  <2>4. copy[r].attempt \in 0 .. 3 /\ copy[r].otp \in Si!Codes /\ \A row \in temp : row.otp \in Si!Codes
    BY <2>2, RowFields DEF SignInTyped, Si!TypeOK
  <2>5. r \in Si!Verifying
    BY <2>1 DEF Si!Verifying, StepsFit
  <2>6. ASSUME Clean({"stale", "lapsed", "unlocked", "twoRows"})' PROVE AttemptsCount'
    <3>1. \A c \in Si!Codes : compared[c] < Si!RetryLimit
      BY <2>1, <2>6 DEF AttemptsCount, Clean
    <3>2. /\ compared[copy[r].otp] <= copy[r].attempt
          /\ \A row \in temp : row.otp # copy[r].otp => compared[row.otp] = 0
      BY <2>1, <2>6 DEF AttemptsCount, Clean
    <3>3. \A row \in temp' : compared[row.otp] <= row.attempt
      BY <2>2, <2>3, <2>4, <3>1, <3>2 DEF SignInTyped, Si!RetryLimit
    <3>4. \A q \in Requests : pc'[q] \in {"count", "compare"} => q = r
      BY <2>1, <2>5, <2>6 DEF SignInTyped, StepsFit, OneVerifies, Clean, Si!Verifying
    <3> QED BY <2>1, <2>2, <2>3, <2>4, <3>1, <3>2, <3>3, <3>4 DEF AttemptsCount, SignInTyped, Si!RetryLimit
  <2> QED BY <2>6 DEF AttemptsCount
<1>10. ASSUME NEW r \in Requests, Si!VerifyRefuse(r) PROVE AttemptsCount'
  <2>1. UNCHANGED <<kind, temp, replica, copy, odd>>
    BY <1>10 DEF Si!VerifyRefuse, Si!rows
  <2>2. PICK to \in {"mark", "done"} : pc' = [pc EXCEPT ![r] = to] /\ r \in Si!Verifying
    BY <1>10 DEF Si!VerifyRefuse, Si!At, Si!Go, Si!Verifying
  <2>3. \A q \in Requests : pc'[q] \in {"count", "compare"} /\ Clean({"stale", "lapsed", "unlocked", "twoRows"}) => FALSE
    BY <2>2 DEF SignInTyped, StepsFit, OneVerifies, Clean, Si!Verifying
  <2>4. CASE compared' = compared
    BY <2>1, <2>2, <2>3, <2>4 DEF AttemptsCount, Clean
  <2>5. CASE pc[r] = "compare" /\ copy[r] # None /\ Si!Comparable(copy[r]) /\ Si!Compare(r)
    <3>1. copy[r] \in Si!Row /\ copy[r].otp \in Si!Codes /\ copy[r].attempt \in 0 .. 3 /\ copy[r].attempt + 1 < 3
      BY <2>5, RowFields DEF SignInTyped, Si!TypeOK, Si!Comparable, Si!RetryLimit
    <3>2. /\ compared' \in [Si!Codes -> Nat] /\ compared'[copy[r].otp] = compared[copy[r].otp] + 1
          /\ \A c \in Si!Codes : c # copy[r].otp => compared'[c] = compared[c]
      BY <2>5, <3>1 DEF Si!Compare, SignInTyped
    <3>3. ASSUME NEW row \in temp PROVE row.otp \in Si!Codes /\ row.attempt \in Nat
      <4>1. row \in Si!Row
        BY <3>3 DEF SignInTyped, Si!TypeOK
      <4> QED BY <4>1, RowFields
    <3> QED BY <2>1, <2>2, <2>3, <2>5, <3>1, <3>2, <3>3 DEF AttemptsCount, Clean, Si!RetryLimit, SignInTyped
  <2>6. \/ compared' = compared
        \/ pc[r] = "compare" /\ copy[r] # None /\ Si!Comparable(copy[r]) /\ Si!Compare(r)
    BY <1>10 DEF Si!VerifyRefuse, StepsFit, Si!At
  <2> QED BY <2>4, <2>5, <2>6
<1>11. ASSUME NEW r \in Requests, Si!VerifyRight(r) PROVE AttemptsCount'
  <2>1. UNCHANGED <<kind, temp, replica, copy, odd>>
    BY <1>11 DEF Si!VerifyRight, Si!rows
  <2>2. PICK to \in {"mark", "done"} : pc' = [pc EXCEPT ![r] = to] /\ r \in Si!Verifying
    BY <1>11 DEF Si!VerifyRight, Si!At, Si!Go, Si!Verifying
  <2>3. \A q \in Requests : pc'[q] \in {"count", "compare"} /\ Clean({"stale", "lapsed", "unlocked", "twoRows"}) => FALSE
    BY <2>2 DEF SignInTyped, StepsFit, OneVerifies, Clean, Si!Verifying
  <2>4. CASE compared' = compared
    BY <2>1, <2>2, <2>3, <2>4 DEF AttemptsCount, Clean
  <2>5. CASE pc[r] = "compare" /\ copy[r] # None /\ Si!Comparable(copy[r]) /\ Si!Compare(r)
    <3>1. copy[r] \in Si!Row /\ copy[r].otp \in Si!Codes /\ copy[r].attempt \in 0 .. 3 /\ copy[r].attempt + 1 < 3
      BY <2>5, RowFields DEF SignInTyped, Si!TypeOK, Si!Comparable, Si!RetryLimit
    <3>2. /\ compared' \in [Si!Codes -> Nat] /\ compared'[copy[r].otp] = compared[copy[r].otp] + 1
          /\ \A c \in Si!Codes : c # copy[r].otp => compared'[c] = compared[c]
      BY <2>5, <3>1 DEF Si!Compare, SignInTyped
    <3>3. ASSUME NEW row \in temp PROVE row.otp \in Si!Codes /\ row.attempt \in Nat
      <4>1. row \in Si!Row
        BY <3>3 DEF SignInTyped, Si!TypeOK
      <4> QED BY <4>1, RowFields
    <3> QED BY <2>1, <2>2, <2>3, <2>5, <3>1, <3>2, <3>3 DEF AttemptsCount, Clean, Si!RetryLimit, SignInTyped
  <2>6. \/ compared' = compared
        \/ pc[r] = "compare" /\ copy[r] # None /\ Si!Comparable(copy[r]) /\ Si!Compare(r)
    BY <1>11 DEF Si!VerifyRight, StepsFit, Si!At
  <2> QED BY <2>4, <2>5, <2>6
<1>12. ASSUME NEW r \in Requests, Si!VerifyMark(r) PROVE AttemptsCount'
  <2>1. /\ UNCHANGED <<kind, replica, copy, compared, used, entered>> /\ odd \subseteq odd'
        /\ pc' = [pc EXCEPT ![r] = "done"]
    BY <1>12 DEF Si!VerifyMark, Si!At, Si!Go, Si!Mark
  <2>2. /\ temp' \subseteq Si!Row
        /\ \A row \in temp' : \E old \in temp : row.otp = old.otp /\ row.attempt = old.attempt
    BY <1>12, MarkIs
  <2> QED BY <2>1, <2>2 DEF SignInTyped, AttemptsCount, Clean
<1>13. ASSUME NEW r \in Requests, Si!ApproveLock(r) PROVE AttemptsCount'
  BY <1>13 DEF Si!ApproveLock, Si!At, Si!Go, Si!Lock, Si!rows, Si!history, SignInTyped, StepsFit, Si!TypeOK,
      Si!Verifying, OneVerifies, FreshCodes, Unsent, OneRow, AttemptsCount, Clean,
      SignInSteps, Si!RetryLimit
<1>14. ASSUME NEW r \in Requests, Si!ApproveRefuse(r) PROVE AttemptsCount'
  BY <1>14 DEF Si!ApproveRefuse, Si!At, Si!Go, Si!Unlock, Si!rows, Si!history, SignInTyped, StepsFit,
      Si!TypeOK, Si!Verifying, OneVerifies, FreshCodes, Unsent, OneRow, AttemptsCount,
      Clean, SignInSteps, Si!RetryLimit
<1>15. ASSUME NEW r \in Requests,
              Si!ApproveRead(r) \/ Si!Approve(r)
       PROVE  AttemptsCount'
  BY <1>15 DEF Si!ApproveRead, Si!Approve, Si!At, Si!Go, Si!Unlock, Si!rows, Si!history, SignInTyped, StepsFit,
      Si!TypeOK, Si!Verifying, OneVerifies, FreshCodes, Unsent, OneRow, AttemptsCount,
      Clean, SignInSteps, Si!RetryLimit
<1>16. ASSUME NEW r \in Requests,
              Si!PutLock(r) \/ Si!PutToken(r)
       PROVE  AttemptsCount'
  BY <1>16 DEF Si!PutLock, Si!PutToken, Si!At, Si!Go, Si!Mark, Si!Lock, Si!rows, Si!history, SignInTyped,
      StepsFit, Si!TypeOK, Si!Verifying, OneVerifies, FreshCodes, Unsent, OneRow,
      AttemptsCount, Clean, SignInSteps, Si!RetryLimit
<1>17. ASSUME NEW r \in Requests, Si!PutRead(r) PROVE AttemptsCount'
  BY <1>17 DEF Si!PutRead, Si!At, Si!Go, Si!ReadRow, Si!Mark, Si!rows, Si!history, SignInTyped, StepsFit,
      Si!TypeOK, Si!Verifying, OneVerifies, FreshCodes, Unsent, OneRow, AttemptsCount,
      Clean, SignInSteps, Si!RetryLimit
<1>18. ASSUME NEW r \in Requests, Si!PutRefuse(r) PROVE AttemptsCount'
  BY <1>18 DEF Si!PutRefuse, Si!At, Si!Go, Si!Unlock, Si!rows, Si!history, SignInTyped, StepsFit, Si!TypeOK,
      Si!Verifying, OneVerifies, FreshCodes, Unsent, OneRow, AttemptsCount, Clean,
      SignInSteps, Si!RetryLimit
<1>19. ASSUME NEW r \in Requests, Si!PutDelete(r) PROVE AttemptsCount'
  BY <1>19 DEF Si!PutDelete, Si!At, Si!Go, Si!Verified, Si!rows, Si!history, SignInTyped, StepsFit, Si!TypeOK,
      Si!Verifying, OneVerifies, FreshCodes, Unsent, OneRow, AttemptsCount, Clean,
      SignInSteps, Si!RetryLimit
<1>20. ASSUME NEW r \in Requests,
              Si!PutLogin(r) \/ Si!PutClosed(r) \/ Si!PutFind(r)
       PROVE  AttemptsCount'
  BY <1>20 DEF Si!PutLogin, Si!PutClosed, Si!PutFind, Si!At, Si!Go, Si!Unlock, Si!rows, Si!history, SignInTyped,
      StepsFit, Si!TypeOK, Si!Verifying, OneVerifies, FreshCodes, Unsent, OneRow,
      AttemptsCount, Clean, SignInSteps, Si!RetryLimit
<1>21. ASSUME NEW r \in Requests, Si!PutCreate(r) PROVE AttemptsCount'
  BY <1>21 DEF Si!PutCreate, Si!At, Si!Go, Si!rows, Si!history, SignInTyped, StepsFit, Si!TypeOK, Si!Verifying,
      OneVerifies, FreshCodes, Unsent, OneRow, AttemptsCount, Clean, SignInSteps,
      Si!RetryLimit
<1>22. ASSUME NEW r \in Requests, Si!PutBonus(r) PROVE AttemptsCount'
  BY <1>22 DEF Si!PutBonus, Si!At, Si!Go, Si!Unlock, Si!rows, Si!history, SignInTyped, StepsFit, Si!TypeOK,
      Si!Verifying, OneVerifies, FreshCodes, Unsent, OneRow, AttemptsCount, Clean,
      SignInSteps, Si!RetryLimit
<1>23. ASSUME NEW r \in Requests, Si!PutFails(r) PROVE AttemptsCount'
  BY <1>23 DEF Si!PutFails, Si!At, Si!Go, Si!Mark, Si!Unlock, Si!rows, Si!history, SignInTyped, StepsFit,
      Si!TypeOK, Si!Verifying, OneVerifies, FreshCodes, Unsent, OneRow, AttemptsCount,
      Clean, SignInSteps, Si!RetryLimit
<1>24. ASSUME
              Si!Message \/ Si!HookWrites \/ Si!Replicate \/ Si!LockExpire
       PROVE  AttemptsCount'
  BY <1>24 DEF Si!Message, Si!HookWrites, Si!Replicate, Si!LockExpire, Si!Mark, Si!rows, Si!history,
      SignInTyped, StepsFit, Si!TypeOK, Si!Verifying, OneVerifies, FreshCodes, Unsent, OneRow,
      AttemptsCount, Clean, SignInSteps, Si!RetryLimit
<1>25. ASSUME Si!Tick PROVE AttemptsCount'
  <2>1. UNCHANGED <<kind, pc, compared, used, entered, odd>>
    BY <1>25 DEF Si!Tick, Si!history
  <2>2. /\ temp' \subseteq Si!Row /\ replica' \subseteq Si!Row /\ copy' \in [Requests -> Si!Row \union {None}]
        /\ \A row \in temp' : \E old \in temp :
              row.otp = old.otp /\ row.attempt = old.attempt /\ row.verified = old.verified
        /\ \A row \in replica' : \E old \in replica : row.otp = old.otp
        /\ \A r \in Requests : copy'[r] = None <=> copy[r] = None
        /\ \A r \in Requests : copy[r] # None =>
              copy'[r].otp = copy[r].otp /\ copy'[r].attempt = copy[r].attempt
    BY <1>25, TickIs
  <2> QED BY <2>1, <2>2 DEF AttemptsCount, Clean
<1> QED BY <1>1, <1>2, <1>3, <1>4, <1>5, <1>6, <1>7, <1>8, <1>9, <1>10, <1>11,
    <1>12, <1>13, <1>14, <1>15, <1>16, <1>17, <1>18, <1>19, <1>20, <1>21, <1>22,
    <1>23, <1>24, <1>25 DEF Si!Next

\* putUser deletes the row of the code before another request reads it.
LEMMA UsedStep ==
    ASSUME SignInTyped, StepsFit, LocksHeld, FreshCodes, UsedIsGone, [Si!Next]_(Si!vars)
    PROVE  UsedIsGone'
<1>1. CASE UNCHANGED Si!vars
  BY <1>1 DEF Si!rows, Si!history, SignInTyped, StepsFit, Si!TypeOK, Si!Putting, LocksHeld,
      FreshCodes, Unsent, UsedIsGone, Clean, SignInSteps, Si!vars
<1>2. ASSUME NEW r \in Requests,
             Si!SendRead(r) \/ Si!SendRefuse(r)
      PROVE  UsedIsGone'
  BY <1>2 DEF Si!SendRead, Si!SendRefuse, Si!At, Si!Go, Si!ReadRow, Si!Mark, Si!rows, Si!history, SignInTyped,
      StepsFit, Si!TypeOK, Si!Putting, LocksHeld, FreshCodes, Unsent, UsedIsGone, Clean,
      SignInSteps
<1>3. ASSUME NEW r \in Requests, Si!SendDelete(r) PROVE UsedIsGone'
  BY <1>3 DEF Si!SendDelete, Si!At, Si!Go, Si!rows, Si!history, SignInTyped, StepsFit, Si!TypeOK, Si!Putting,
      LocksHeld, FreshCodes, Unsent, UsedIsGone, Clean, SignInSteps
<1>4. ASSUME NEW r \in Requests, Si!SendInsert(r) PROVE UsedIsGone'
  BY <1>4 DEF Si!SendInsert, Si!At, Si!Go, Si!Mark, Si!rows, Si!history, SignInTyped, StepsFit, Si!TypeOK,
      Si!Putting, LocksHeld, FreshCodes, Unsent, UsedIsGone, Clean, SignInSteps
<1>5. ASSUME NEW r \in Requests,
             Si!VerifyLock(r) \/ Si!VerifyRead(r)
      PROVE  UsedIsGone'
  BY <1>5 DEF Si!VerifyLock, Si!VerifyRead, Si!At, Si!Go, Si!Mark, Si!Lock, Si!ReadRow, Si!rows, Si!history,
      SignInTyped, StepsFit, Si!TypeOK, Si!Putting, LocksHeld, FreshCodes, Unsent, UsedIsGone,
      Clean, SignInSteps
<1>6. ASSUME NEW r \in Requests, Si!VerifyRefuse(r) PROVE UsedIsGone'
  BY <1>6 DEF Si!VerifyRefuse, Si!At, Si!Go, Si!Unlock, Si!Compare, Si!Comparable, Si!rows, Si!history,
      SignInTyped, StepsFit, Si!TypeOK, Si!Putting, LocksHeld, FreshCodes, Unsent, UsedIsGone,
      Clean, SignInSteps
<1>7. ASSUME NEW r \in Requests,
             Si!VerifyRight(r) \/ Si!VerifyDelete(r)
      PROVE  UsedIsGone'
  BY <1>7 DEF Si!VerifyRight, Si!VerifyDelete, Si!At, Si!Go, Si!Compare, Si!Comparable, Si!rows, Si!history,
      SignInTyped, StepsFit, Si!TypeOK, Si!Putting, LocksHeld, FreshCodes, Unsent, UsedIsGone,
      Clean, SignInSteps
<1>8. ASSUME NEW r \in Requests, Si!VerifyCount(r) PROVE UsedIsGone'
  <2>1. /\ UNCHANGED <<kind, replica, copy, compared, used, entered, odd>>
        /\ pc' = [pc EXCEPT ![r] = "compare"] /\ pc[r] = "count" /\ copy[r] # None
    BY <1>8 DEF Si!VerifyCount, Si!At, Si!Go, Si!history
  <2>2. /\ temp' \subseteq Si!Row /\ copy[r] \in Si!Row /\ Si!Counted(copy[r]) \in 0 .. 3
        /\ \A row \in temp' : row.attempt = Si!Counted(copy[r]) /\ \E old \in temp :
              row.otp = old.otp /\ row.verified = old.verified
    BY <1>8, CountIs
  <2> QED BY <2>1, <2>2 DEF SignInTyped, UsedIsGone, Clean
<1>9. ASSUME NEW r \in Requests, Si!VerifyMark(r) PROVE UsedIsGone'
  <2>1. /\ UNCHANGED <<kind, replica, copy, compared, used, entered>> /\ odd \subseteq odd'
        /\ pc' = [pc EXCEPT ![r] = "done"]
    BY <1>9 DEF Si!VerifyMark, Si!At, Si!Go, Si!Mark
  <2>2. /\ temp' \subseteq Si!Row
        /\ \A row \in temp' : \E old \in temp : row.otp = old.otp /\ row.attempt = old.attempt
    BY <1>9, MarkIs
  <2> QED BY <2>1, <2>2 DEF SignInTyped, UsedIsGone, Clean
<1>10. ASSUME NEW r \in Requests,
              Si!ApproveLock(r) \/ Si!ApproveRefuse(r) \/ Si!ApproveRead(r) \/ Si!Approve(r)
       PROVE  UsedIsGone'
  BY <1>10 DEF Si!ApproveLock, Si!ApproveRefuse, Si!ApproveRead, Si!Approve, Si!At, Si!Go, Si!Lock,
      Si!Unlock, Si!rows, Si!history, SignInTyped, StepsFit, Si!TypeOK, Si!Putting, LocksHeld,
      FreshCodes, Unsent, UsedIsGone, Clean, SignInSteps
<1>11. ASSUME NEW r \in Requests,
              Si!PutLock(r) \/ Si!PutToken(r)
       PROVE  UsedIsGone'
  BY <1>11 DEF Si!PutLock, Si!PutToken, Si!At, Si!Go, Si!Mark, Si!Lock, Si!rows, Si!history, SignInTyped,
      StepsFit, Si!TypeOK, Si!Putting, LocksHeld, FreshCodes, Unsent, UsedIsGone, Clean,
      SignInSteps
<1>12. ASSUME NEW r \in Requests, Si!PutRead(r) PROVE UsedIsGone'
  BY <1>12 DEF Si!PutRead, Si!At, Si!Go, Si!ReadRow, Si!Mark, Si!rows, Si!history, SignInTyped, StepsFit,
      Si!TypeOK, Si!Putting, LocksHeld, FreshCodes, Unsent, UsedIsGone, Clean, SignInSteps
<1>13. ASSUME NEW r \in Requests, Si!PutRefuse(r) PROVE UsedIsGone'
  BY <1>13 DEF Si!PutRefuse, Si!At, Si!Go, Si!Unlock, Si!rows, Si!history, SignInTyped, StepsFit, Si!TypeOK,
      Si!Putting, LocksHeld, FreshCodes, Unsent, UsedIsGone, Clean, SignInSteps
<1>14. ASSUME NEW r \in Requests, Si!PutDelete(r) PROVE UsedIsGone'
  <2>1. /\ UNCHANGED <<kind, copy, odd>> /\ temp' = {} /\ pc' = [pc EXCEPT ![r] = "find"]
        /\ pc[r] = "delete" /\ (kind[r] = "put" => copy[r] # None)
        /\ used' = [c \in Si!Codes |-> IF kind[r] = "put" /\ c = copy[r].otp THEN used[c] + 1 ELSE used[c]]
    BY <1>14 DEF Si!PutDelete, Si!At, Si!Go, Si!Verified
  <2>2. CASE kind[r] # "put"
    BY <2>1, <2>2 DEF UsedIsGone, Clean, SignInTyped
  <2>3. CASE kind[r] = "put"
    <3>1. copy[r].otp \in Si!Codes
      BY <2>1, <2>3, RowFields DEF SignInTyped, Si!TypeOK
    <3>2. ASSUME Clean({"stale", "lapsed"}), NEW q \in Requests, kind[q] = "put", pc'[q] = "delete" PROVE FALSE
      BY <2>1, <2>3, <3>2 DEF SignInTyped, LocksHeld, Si!Putting, Clean
    <3>3. Clean({"stale", "lapsed"}) => \A c \in Si!Codes : used'[c] <= 1
      BY <2>1, <2>3, <3>1 DEF SignInTyped, UsedIsGone, Clean
    <3> QED BY <2>1, <3>2, <3>3 DEF UsedIsGone, Clean
  <2> QED BY <2>2, <2>3
<1>15. ASSUME NEW r \in Requests,
              Si!PutLogin(r) \/ Si!PutClosed(r) \/ Si!PutFind(r) \/ Si!PutCreate(r) \/
              Si!PutBonus(r) \/ Si!PutFails(r)
       PROVE  UsedIsGone'
  BY <1>15 DEF Si!PutLogin, Si!PutClosed, Si!PutFind, Si!PutCreate, Si!PutBonus, Si!PutFails, Si!At, Si!Go,
      Si!Unlock, Si!Mark, Si!rows, Si!history, SignInTyped, StepsFit, Si!TypeOK, Si!Putting, LocksHeld,
      FreshCodes, Unsent, UsedIsGone, Clean, SignInSteps
<1>16. ASSUME
              Si!Message \/ Si!HookWrites \/ Si!Replicate \/ Si!LockExpire
       PROVE  UsedIsGone'
  BY <1>16 DEF Si!Message, Si!HookWrites, Si!Replicate, Si!LockExpire, Si!Mark, Si!rows, Si!history,
      SignInTyped, StepsFit, Si!TypeOK, Si!Putting, LocksHeld, FreshCodes, Unsent, UsedIsGone,
      Clean, SignInSteps
<1>17. ASSUME Si!Tick PROVE UsedIsGone'
  <2>1. UNCHANGED <<kind, pc, compared, used, entered, odd>>
    BY <1>17 DEF Si!Tick, Si!history
  <2>2. /\ temp' \subseteq Si!Row /\ replica' \subseteq Si!Row /\ copy' \in [Requests -> Si!Row \union {None}]
        /\ \A row \in temp' : \E old \in temp :
              row.otp = old.otp /\ row.attempt = old.attempt /\ row.verified = old.verified
        /\ \A row \in replica' : \E old \in replica : row.otp = old.otp
        /\ \A r \in Requests : copy'[r] = None <=> copy[r] = None
        /\ \A r \in Requests : copy[r] # None =>
              copy'[r].otp = copy[r].otp /\ copy'[r].attempt = copy[r].attempt
    BY <1>17, TickIs
  <2> QED BY <2>1, <2>2 DEF UsedIsGone, Clean
<1> QED BY <1>1, <1>2, <1>3, <1>4, <1>5, <1>6, <1>7, <1>8, <1>9, <1>10, <1>11,
    <1>12, <1>13, <1>14, <1>15, <1>16, <1>17 DEF Si!Next

\* A mark on another code's row is noted.
LEMMA VerifiedStep ==
    ASSUME SignInTyped, StepsFit, Si!VerifiedByOwnCode, [Si!Next]_(Si!vars)
    PROVE  Si!VerifiedByOwnCode'
<1>1. CASE UNCHANGED Si!vars
  BY <1>1 DEF Si!rows, Si!history, SignInTyped, StepsFit, Si!TypeOK, Si!VerifiedByOwnCode, SignInSteps, Si!vars
<1>2. ASSUME NEW r \in Requests,
             Si!SendRead(r) \/ Si!SendRefuse(r) \/ Si!SendDelete(r) \/ Si!SendInsert(r)
      PROVE  Si!VerifiedByOwnCode'
  BY <1>2 DEF Si!SendRead, Si!SendRefuse, Si!SendDelete, Si!SendInsert, Si!At, Si!Go, Si!ReadRow, Si!Mark,
      Si!rows, Si!history, SignInTyped, StepsFit, Si!TypeOK, Si!VerifiedByOwnCode, SignInSteps
<1>3. ASSUME NEW r \in Requests,
             Si!VerifyLock(r) \/ Si!VerifyRead(r) \/ Si!VerifyRefuse(r) \/ Si!VerifyRight(r) \/
             Si!VerifyDelete(r)
      PROVE  Si!VerifiedByOwnCode'
  BY <1>3 DEF Si!VerifyLock, Si!VerifyRead, Si!VerifyRefuse, Si!VerifyRight, Si!VerifyDelete, Si!At,
      Si!Go, Si!Mark, Si!Lock, Si!ReadRow, Si!Unlock, Si!Compare, Si!Comparable, Si!rows, Si!history, SignInTyped,
      StepsFit, Si!TypeOK, Si!VerifiedByOwnCode, SignInSteps
<1>4. ASSUME NEW r \in Requests, Si!VerifyCount(r) PROVE Si!VerifiedByOwnCode'
  <2>1. /\ UNCHANGED <<kind, replica, copy, compared, used, entered, odd>>
        /\ pc' = [pc EXCEPT ![r] = "compare"] /\ pc[r] = "count" /\ copy[r] # None
    BY <1>4 DEF Si!VerifyCount, Si!At, Si!Go, Si!history
  <2>2. /\ temp' \subseteq Si!Row /\ copy[r] \in Si!Row /\ Si!Counted(copy[r]) \in 0 .. 3
        /\ \A row \in temp' : row.attempt = Si!Counted(copy[r]) /\ \E old \in temp :
              row.otp = old.otp /\ row.verified = old.verified
    BY <1>4, CountIs
  <2> QED BY <2>1, <2>2 DEF SignInTyped, Si!VerifiedByOwnCode
<1>5. ASSUME NEW r \in Requests, Si!VerifyMark(r) PROVE Si!VerifiedByOwnCode'
  <2>1. /\ UNCHANGED <<copy, entered>> /\ pc[r] = "mark"
        /\ odd' = odd \union {o \in {"crossed"} : \E row \in temp : row.otp # copy[r].otp}
    BY <1>5 DEF Si!VerifyMark, Si!At, Si!Mark
  <2>2. \A row \in temp' : \E old \in temp : row.otp = old.otp
    BY <1>5, MarkIs
  <2> QED BY <2>1, <2>2 DEF Si!VerifiedByOwnCode, StepsFit
<1>6. ASSUME NEW r \in Requests,
             Si!ApproveLock(r) \/ Si!ApproveRefuse(r) \/ Si!ApproveRead(r) \/ Si!Approve(r)
      PROVE  Si!VerifiedByOwnCode'
  BY <1>6 DEF Si!ApproveLock, Si!ApproveRefuse, Si!ApproveRead, Si!Approve, Si!At, Si!Go, Si!Lock,
      Si!Unlock, Si!rows, Si!history, SignInTyped, StepsFit, Si!TypeOK, Si!VerifiedByOwnCode, SignInSteps
<1>7. ASSUME NEW r \in Requests,
             Si!PutLock(r) \/ Si!PutToken(r) \/ Si!PutRead(r) \/ Si!PutRefuse(r) \/ Si!PutDelete(r)
      PROVE  Si!VerifiedByOwnCode'
  BY <1>7 DEF Si!PutLock, Si!PutToken, Si!PutRead, Si!PutRefuse, Si!PutDelete, Si!At, Si!Go, Si!Mark, Si!Lock,
      Si!ReadRow, Si!Unlock, Si!Verified, Si!rows, Si!history, SignInTyped, StepsFit, Si!TypeOK,
      Si!VerifiedByOwnCode, SignInSteps
<1>8. ASSUME NEW r \in Requests,
             Si!PutLogin(r) \/ Si!PutClosed(r) \/ Si!PutFind(r) \/ Si!PutCreate(r) \/
             Si!PutBonus(r) \/ Si!PutFails(r)
      PROVE  Si!VerifiedByOwnCode'
  BY <1>8 DEF Si!PutLogin, Si!PutClosed, Si!PutFind, Si!PutCreate, Si!PutBonus, Si!PutFails, Si!At, Si!Go,
      Si!Unlock, Si!Mark, Si!rows, Si!history, SignInTyped, StepsFit, Si!TypeOK, Si!VerifiedByOwnCode, SignInSteps
<1>9. ASSUME
             Si!Message \/ Si!HookWrites \/ Si!Replicate \/ Si!LockExpire
      PROVE  Si!VerifiedByOwnCode'
  BY <1>9 DEF Si!Message, Si!HookWrites, Si!Replicate, Si!LockExpire, Si!Mark, Si!rows, Si!history,
      SignInTyped, StepsFit, Si!TypeOK, Si!VerifiedByOwnCode, SignInSteps
<1>10. ASSUME Si!Tick PROVE Si!VerifiedByOwnCode'
  <2>1. UNCHANGED <<kind, pc, compared, used, entered, odd>>
    BY <1>10 DEF Si!Tick, Si!history
  <2>2. /\ temp' \subseteq Si!Row /\ replica' \subseteq Si!Row /\ copy' \in [Requests -> Si!Row \union {None}]
        /\ \A row \in temp' : \E old \in temp :
              row.otp = old.otp /\ row.attempt = old.attempt /\ row.verified = old.verified
        /\ \A row \in replica' : \E old \in replica : row.otp = old.otp
        /\ \A r \in Requests : copy'[r] = None <=> copy[r] = None
        /\ \A r \in Requests : copy[r] # None =>
              copy'[r].otp = copy[r].otp /\ copy'[r].attempt = copy[r].attempt
    BY <1>10, TickIs
  <2> QED BY <2>1, <2>2 DEF Si!VerifiedByOwnCode
<1> QED BY <1>1, <1>2, <1>3, <1>4, <1>5, <1>6, <1>7, <1>8, <1>9, <1>10 DEF Si!Next

\* A request takes the steps of its handler.
LEMMA FitsStep ==
    ASSUME SignInTyped, StepsFit, [Si!Next]_(Si!vars)
    PROVE  StepsFit'
<1> USE SignInAssumption
<1>1. CASE UNCHANGED Si!vars
  BY <1>1 DEF Si!rows, Si!history, SignInTyped, StepsFit, Si!TypeOK, SignInSteps, Si!vars
<1>2. ASSUME NEW r \in Requests,
             Si!SendRead(r) \/ Si!SendRefuse(r) \/ Si!SendDelete(r) \/ Si!SendInsert(r)
      PROVE  StepsFit'
  BY <1>2 DEF Si!SendRead, Si!SendRefuse, Si!SendDelete, Si!SendInsert, Si!At, Si!Go, Si!ReadRow, Si!Mark,
      Si!rows, Si!history, SignInTyped, StepsFit, Si!TypeOK, SignInSteps
<1>3. ASSUME NEW r \in Requests,
             Si!VerifyLock(r) \/ Si!VerifyRead(r) \/ Si!VerifyCount(r) \/ Si!VerifyRefuse(r) \/
             Si!VerifyRight(r) \/ Si!VerifyDelete(r) \/ Si!VerifyMark(r)
      PROVE  StepsFit'
  BY <1>3 DEF Si!VerifyLock, Si!VerifyRead, Si!VerifyCount, Si!VerifyRefuse, Si!VerifyRight,
      Si!VerifyDelete, Si!VerifyMark, Si!At, Si!Go, Si!Mark, Si!Lock, Si!ReadRow, Si!Unlock, Si!Compare,
      Si!Comparable, Si!rows, Si!history, SignInTyped, StepsFit, Si!TypeOK, SignInSteps
<1>4. ASSUME NEW r \in Requests,
             Si!ApproveLock(r) \/ Si!ApproveRefuse(r) \/ Si!ApproveRead(r) \/ Si!Approve(r)
      PROVE  StepsFit'
  BY <1>4 DEF Si!ApproveLock, Si!ApproveRefuse, Si!ApproveRead, Si!Approve, Si!At, Si!Go, Si!Lock,
      Si!Unlock, Si!rows, Si!history, SignInTyped, StepsFit, Si!TypeOK, SignInSteps
<1>5. ASSUME NEW r \in Requests,
             Si!PutLock(r) \/ Si!PutToken(r) \/ Si!PutRead(r) \/ Si!PutRefuse(r) \/ Si!PutDelete(r)
      PROVE  StepsFit'
  BY <1>5 DEF Si!PutLock, Si!PutToken, Si!PutRead, Si!PutRefuse, Si!PutDelete, Si!At, Si!Go, Si!Mark, Si!Lock,
      Si!ReadRow, Si!Unlock, Si!Verified, Si!rows, Si!history, SignInTyped, StepsFit, Si!TypeOK, SignInSteps
<1>6. ASSUME NEW r \in Requests,
             Si!PutLogin(r) \/ Si!PutClosed(r) \/ Si!PutFind(r) \/ Si!PutCreate(r) \/
             Si!PutBonus(r) \/ Si!PutFails(r)
      PROVE  StepsFit'
  BY <1>6 DEF Si!PutLogin, Si!PutClosed, Si!PutFind, Si!PutCreate, Si!PutBonus, Si!PutFails, Si!At, Si!Go,
      Si!Unlock, Si!Mark, Si!rows, Si!history, SignInTyped, StepsFit, Si!TypeOK, SignInSteps
<1>7. ASSUME
             Si!Message \/ Si!HookWrites \/ Si!Replicate \/ Si!LockExpire
      PROVE  StepsFit'
  BY <1>7 DEF Si!Message, Si!HookWrites, Si!Replicate, Si!LockExpire, Si!Mark, Si!rows, Si!history,
      SignInTyped, StepsFit, Si!TypeOK, SignInSteps
<1>8. ASSUME Si!Tick PROVE StepsFit'
  BY <1>8, TickIs DEF Si!Tick, Si!rows, Si!history, SignInTyped, StepsFit, Si!TypeOK, SignInSteps
<1> QED BY <1>1, <1>2, <1>3, <1>4, <1>5, <1>6, <1>7, <1>8 DEF Si!Next

\* Types.
LEMMA SignInTypedStep ==
    ASSUME SignInTyped, StepsFit, [Si!Next]_(Si!vars)
    PROVE  SignInTyped'
<1> USE SignInAssumption
<1>1. CASE UNCHANGED Si!vars
  BY <1>1 DEF Si!rows, Si!history, SignInTyped, StepsFit, Si!TypeOK, SignInSteps, Si!Codes, Si!Locks, Si!Odds,
      Si!MaxHooks, Si!vars
<1>2. ASSUME NEW r \in Requests,
             Si!SendRefuse(r) \/ Si!SendDelete(r)
      PROVE  SignInTyped'
  BY <1>2 DEF Si!SendRefuse, Si!SendDelete, Si!At, Si!Go, Si!rows, Si!history, SignInTyped, StepsFit,
      Si!TypeOK, SignInSteps, Si!Codes, Si!Locks, Si!Odds, Si!MaxHooks
<1>3. ASSUME NEW r \in Requests, Si!SendRead(r) PROVE SignInTyped'
  BY <1>3, ReadIs DEF Si!SendRead, Si!At, Si!Go, Si!ReadRow, Si!Mark, Si!rows, Si!history, SignInTyped,
      StepsFit, Si!TypeOK, SignInSteps, Si!Codes, Si!Locks, Si!Odds, Si!MaxHooks
<1>4. ASSUME NEW r \in Requests, Si!SendInsert(r) PROVE SignInTyped'
  <2>1. odd' \subseteq Si!Odds
    BY <1>4 DEF Si!SendInsert, Si!Mark, Si!history, SignInTyped, Si!TypeOK, Si!Odds
  <2>2. pc' \in [Requests -> SignInSteps] /\ UNCHANGED <<channel, kind>>
    BY <1>4 DEF Si!SendInsert, Si!At, Si!Go, SignInTyped, SignInSteps
  <2>3. temp' \subseteq Si!Row
    <3> DEFINE sent == IF copy[r] = None THEN 0 ELSE IF copy[r].sent >= Si!ResendLimit THEN 0 ELSE copy[r].sent
    <3>1. sent \in 0 .. 2
      <4>1. copy[r] # None => copy[r].sent \in 1 .. 3
        BY DEF SignInTyped, Si!TypeOK, Si!Row, Si!ResendLimit
      <4> QED BY <4>1 DEF Si!ResendLimit
    <3> HIDE DEF sent
    <3>2. [otp |-> r, attempt |-> 0, sent |-> sent + 1, verified |-> FALSE, age |-> 1] \in Si!Row
      BY <3>1 DEF Si!Row, Si!Codes, Si!RetryLimit, Si!ResendLimit
    <3> QED BY <3>2, <1>4 DEF Si!SendInsert, SignInTyped, Si!TypeOK, sent
  <2> QED BY <2>1, <2>2, <2>3, <1>4 DEF Si!SendInsert, Si!rows, Si!history, SignInTyped, Si!TypeOK
<1>5. ASSUME NEW r \in Requests, Si!VerifyDelete(r) PROVE SignInTyped'
  BY <1>5 DEF Si!VerifyDelete, Si!At, Si!Go, Si!rows, Si!history, SignInTyped, StepsFit, Si!TypeOK, SignInSteps,
      Si!Codes, Si!Locks, Si!Odds, Si!MaxHooks
<1>6. ASSUME NEW r \in Requests, Si!VerifyLock(r) PROVE SignInTyped'
  <2>1. odd' \subseteq Si!Odds
    BY <1>6 DEF Si!VerifyLock, Si!Mark, Si!history, SignInTyped, Si!TypeOK, Si!Odds
  <2>2. pc' \in [Requests -> SignInSteps] /\ UNCHANGED <<channel, kind>>
    BY <1>6 DEF Si!VerifyLock, Si!At, Si!Go, SignInTyped, SignInSteps
  <2>3. lock' \in [Si!Locks -> Requests \union {None}]
    BY <1>6 DEF Si!VerifyLock, Si!Lock, Si!Unlock, SignInTyped, Si!TypeOK, Si!Locks
  <2> QED BY <2>1, <2>2, <2>3, <1>6 DEF Si!VerifyLock, Si!rows, Si!history, SignInTyped, Si!TypeOK
<1>7. ASSUME NEW r \in Requests, Si!VerifyRead(r) PROVE SignInTyped'
  BY <1>7, ReadIs DEF Si!VerifyRead, Si!At, Si!Go, Si!ReadRow, Si!Mark, Si!rows, Si!history, SignInTyped,
      StepsFit, Si!TypeOK, SignInSteps, Si!Codes, Si!Locks, Si!Odds, Si!MaxHooks
<1>8. ASSUME NEW r \in Requests, Si!VerifyCount(r) PROVE SignInTyped'
  BY <1>8, CountIs DEF Si!VerifyCount, Si!At, Si!Go, Si!rows, Si!history, SignInTyped, StepsFit, Si!TypeOK,
      SignInSteps, Si!Codes, Si!Locks, Si!Odds, Si!MaxHooks
<1>9. ASSUME NEW r \in Requests, Si!VerifyRefuse(r) PROVE SignInTyped'
  <2>1. odd' \subseteq Si!Odds
    BY <1>9 DEF Si!VerifyRefuse, Si!Mark, Si!history, SignInTyped, Si!TypeOK, Si!Odds
  <2>2. pc' \in [Requests -> SignInSteps] /\ UNCHANGED <<channel, kind>>
    BY <1>9 DEF Si!VerifyRefuse, Si!At, Si!Go, SignInTyped, SignInSteps
  <2>3. lock' \in [Si!Locks -> Requests \union {None}]
    BY <1>9 DEF Si!VerifyRefuse, Si!Lock, Si!Unlock, SignInTyped, Si!TypeOK, Si!Locks
  <2>4. compared' \in [Si!Codes -> Nat]
    BY <1>9 DEF Si!VerifyRefuse, Si!Compare, SignInTyped
  <2> QED BY <2>1, <2>2, <2>3, <2>4, <1>9 DEF Si!VerifyRefuse, Si!rows, Si!history, SignInTyped, Si!TypeOK
<1>10. ASSUME NEW r \in Requests, Si!VerifyRight(r) PROVE SignInTyped'
  <2>1. copy[r] \in Si!Row /\ copy[r].otp \in Si!Codes
    BY <1>10, RowFields DEF Si!VerifyRight, Si!At, StepsFit, SignInTyped, Si!TypeOK
  <2>2. pc' \in [Requests -> SignInSteps] /\ UNCHANGED <<channel, kind>>
    BY <1>10 DEF Si!VerifyRight, Si!At, Si!Go, SignInTyped, SignInSteps
  <2>3. compared' \in [Si!Codes -> Nat] /\ entered' \subseteq Si!Codes
    BY <2>1, <1>10 DEF Si!VerifyRight, Si!Compare, SignInTyped
  <2> QED BY <2>2, <2>3, <1>10 DEF Si!VerifyRight, Si!rows, Si!history, SignInTyped, Si!TypeOK
<1>11. ASSUME NEW r \in Requests, Si!VerifyMark(r) PROVE SignInTyped'
  BY <1>11, MarkIs DEF Si!VerifyMark, Si!At, Si!Go, Si!Mark, Si!Unlock, Si!rows, Si!history, SignInTyped,
      StepsFit, Si!TypeOK, SignInSteps, Si!Codes, Si!Locks, Si!Odds, Si!MaxHooks
<1>12. ASSUME NEW r \in Requests, Si!ApproveLock(r) PROVE SignInTyped'
  BY <1>12 DEF Si!ApproveLock, Si!At, Si!Go, Si!Lock, Si!rows, Si!history, SignInTyped, StepsFit, Si!TypeOK,
      SignInSteps, Si!Codes, Si!Locks, Si!Odds, Si!MaxHooks
<1>13. ASSUME NEW r \in Requests, Si!ApproveRefuse(r) PROVE SignInTyped'
  BY <1>13 DEF Si!ApproveRefuse, Si!At, Si!Go, Si!Unlock, Si!rows, Si!history, SignInTyped, StepsFit,
      Si!TypeOK, SignInSteps, Si!Codes, Si!Locks, Si!Odds, Si!MaxHooks
<1>14. ASSUME NEW r \in Requests, Si!ApproveRead(r) PROVE SignInTyped'
  BY <1>14 DEF Si!ApproveRead, Si!At, Si!Go, Si!rows, Si!history, SignInTyped, StepsFit, Si!TypeOK, SignInSteps,
      Si!Codes, Si!Locks, Si!Odds, Si!MaxHooks
<1>15. ASSUME NEW r \in Requests, Si!Approve(r) PROVE SignInTyped'
  BY <1>15 DEF Si!Approve, Si!At, Si!Go, Si!Unlock, Si!rows, Si!history, SignInTyped, StepsFit, Si!TypeOK,
      SignInSteps, Si!Codes, Si!Locks, Si!Odds, Si!MaxHooks
<1>16. ASSUME NEW r \in Requests,
              Si!PutToken(r) \/ Si!PutRefuse(r)
       PROVE  SignInTyped'
  <2>1. pc' \in [Requests -> SignInSteps] /\ UNCHANGED <<channel, kind, Si!rows, accounts, hooks, Si!history>>
    BY <1>16 DEF Si!PutToken, Si!PutRefuse, Si!At, Si!Go, SignInTyped, SignInSteps
  <2>2. lock' \in [Si!Locks -> Requests \union {None}]
    BY <1>16 DEF Si!PutToken, Si!PutRefuse, Si!Unlock, SignInTyped, Si!TypeOK, Si!Locks
  <2> QED BY <2>1, <2>2 DEF Si!rows, Si!history, SignInTyped, Si!TypeOK
<1>17. ASSUME NEW r \in Requests, Si!PutDelete(r) PROVE SignInTyped'
  BY <1>17 DEF Si!PutDelete, Si!At, Si!Go, Si!Verified, Si!rows, Si!history, SignInTyped, StepsFit, Si!TypeOK,
      SignInSteps, Si!Codes, Si!Locks, Si!Odds, Si!MaxHooks
<1>18. ASSUME NEW r \in Requests, Si!PutLock(r) PROVE SignInTyped'
  <2>1. odd' \subseteq Si!Odds
    BY <1>18 DEF Si!PutLock, Si!Mark, Si!history, SignInTyped, Si!TypeOK, Si!Odds
  <2>2. pc' \in [Requests -> SignInSteps] /\ UNCHANGED <<channel, kind>>
    BY <1>18 DEF Si!PutLock, Si!At, Si!Go, SignInTyped, SignInSteps
  <2>3. lock' \in [Si!Locks -> Requests \union {None}]
    BY <1>18 DEF Si!PutLock, Si!Lock, Si!Unlock, SignInTyped, Si!TypeOK, Si!Locks
  <2> QED BY <2>1, <2>2, <2>3, <1>18 DEF Si!PutLock, Si!rows, Si!history, SignInTyped, Si!TypeOK
<1>19. ASSUME NEW r \in Requests, Si!PutRead(r) PROVE SignInTyped'
  BY <1>19, ReadIs DEF Si!PutRead, Si!At, Si!Go, Si!ReadRow, Si!Mark, Si!rows, Si!history, SignInTyped,
      StepsFit, Si!TypeOK, SignInSteps, Si!Codes, Si!Locks, Si!Odds, Si!MaxHooks
<1>20. ASSUME NEW r \in Requests, Si!PutLogin(r) PROVE SignInTyped'
  BY <1>20 DEF Si!PutLogin, Si!At, Si!Go, Si!Unlock, Si!rows, Si!history, SignInTyped, StepsFit, Si!TypeOK,
      SignInSteps, Si!Codes, Si!Locks, Si!Odds, Si!MaxHooks
<1>21. ASSUME NEW r \in Requests, Si!PutClosed(r) PROVE SignInTyped'
  BY <1>21 DEF Si!PutClosed, Si!At, Si!Go, Si!rows, Si!history, SignInTyped, StepsFit, Si!TypeOK, SignInSteps,
      Si!Codes, Si!Locks, Si!Odds, Si!MaxHooks
<1>22. ASSUME NEW r \in Requests, Si!PutFind(r) PROVE SignInTyped'
  BY <1>22 DEF Si!PutFind, Si!At, Si!Go, Si!rows, Si!history, SignInTyped, StepsFit, Si!TypeOK, SignInSteps,
      Si!Codes, Si!Locks, Si!Odds, Si!MaxHooks
<1>23. ASSUME NEW r \in Requests, Si!PutCreate(r) PROVE SignInTyped'
  BY <1>23 DEF Si!PutCreate, Si!At, Si!Go, Si!rows, Si!history, SignInTyped, StepsFit, Si!TypeOK, SignInSteps,
      Si!Codes, Si!Locks, Si!Odds, Si!MaxHooks
<1>24. ASSUME NEW r \in Requests, Si!PutBonus(r) PROVE SignInTyped'
  <2>1. accounts' \in Seq(Nat)
    <3>1. Len(accounts) \in 1 .. Len(accounts) /\ accounts \in Seq(Nat)
      BY <1>24 DEF Si!PutBonus, Si!At, StepsFit, SignInTyped, Si!TypeOK
    <3> QED BY <3>1, <1>24 DEF Si!PutBonus
  <2>2. pc' \in [Requests -> SignInSteps] /\ UNCHANGED <<channel, kind>>
    BY <1>24 DEF Si!PutBonus, Si!At, Si!Go, SignInTyped, SignInSteps
  <2>3. lock' \in [Si!Locks -> Requests \union {None}]
    BY <1>24 DEF Si!PutBonus, Si!Unlock, SignInTyped, Si!TypeOK, Si!Locks
  <2> QED BY <2>1, <2>2, <2>3, <1>24 DEF Si!PutBonus, Si!rows, Si!history, SignInTyped, Si!TypeOK
<1>25. ASSUME NEW r \in Requests, Si!PutFails(r) PROVE SignInTyped'
  <2>1. odd' \subseteq Si!Odds
    BY <1>25 DEF Si!PutFails, Si!Mark, Si!history, SignInTyped, Si!TypeOK, Si!Odds
  <2>2. pc' \in [Requests -> SignInSteps] /\ UNCHANGED <<channel, kind>>
    BY <1>25 DEF Si!PutFails, Si!At, Si!Go, SignInTyped, SignInSteps
  <2>3. lock' \in [Si!Locks -> Requests \union {None}]
    BY <1>25 DEF Si!PutFails, Si!Lock, Si!Unlock, SignInTyped, Si!TypeOK, Si!Locks
  <2> QED BY <2>1, <2>2, <2>3, <1>25 DEF Si!PutFails, Si!rows, Si!history, SignInTyped, Si!TypeOK
<1>26. ASSUME Si!HookWrites PROVE SignInTyped'
  BY <1>26 DEF Si!HookWrites, Si!rows, Si!history, SignInTyped, StepsFit, Si!TypeOK, SignInSteps, Si!Codes,
      Si!Locks, Si!Odds, Si!MaxHooks
<1>27. ASSUME Si!Replicate PROVE SignInTyped'
  BY <1>27 DEF Si!Replicate, Si!rows, Si!history, SignInTyped, StepsFit, Si!TypeOK, SignInSteps, Si!Codes,
      Si!Locks, Si!Odds, Si!MaxHooks
<1>28. ASSUME Si!LockExpire PROVE SignInTyped'
  <2>1. lock' \in [Si!Locks -> Requests \union {None}] /\ odd' \subseteq Si!Odds
    BY <1>28 DEF Si!LockExpire, Si!Mark, SignInTyped, Si!TypeOK, Si!Odds
  <2> QED BY <2>1, <1>28 DEF Si!LockExpire, Si!rows, SignInTyped, Si!TypeOK
<1>29. ASSUME Si!Message PROVE SignInTyped'
  <2>1. odd' \subseteq Si!Odds
    BY <1>29 DEF Si!Message, Si!Mark, Si!history, SignInTyped, Si!TypeOK, Si!Odds
  <2>2. hooks' \in 0 .. Si!MaxHooks
    BY <1>29 DEF Si!Message, SignInTyped, Si!TypeOK, Si!MaxHooks
  <2> QED BY <2>1, <2>2, <1>29 DEF Si!Message, Si!rows, Si!history, SignInTyped, Si!TypeOK
<1>30. ASSUME Si!Tick PROVE SignInTyped'
  BY <1>30, TickIs DEF Si!Tick, Si!rows, Si!history, SignInTyped, StepsFit, Si!TypeOK, SignInSteps, Si!Codes,
      Si!Locks, Si!Odds, Si!MaxHooks
<1> QED BY <1>1, <1>2, <1>3, <1>4, <1>5, <1>6, <1>7, <1>8, <1>9, <1>10, <1>11,
    <1>12, <1>13, <1>14, <1>15, <1>16, <1>17, <1>18, <1>19, <1>20, <1>21, <1>22,
    <1>23, <1>24, <1>25, <1>26, <1>27, <1>28, <1>29, <1>30 DEF Si!Next

-------------------------------------------------------------------------------
(* The theorems *)

SignInv ==
    /\ SignInTyped /\ StepsFit /\ LocksHeld /\ OneVerifies /\ OnePuts
    /\ AccountBuilt /\ FreshCodes /\ OneRow /\ AttemptsCount /\ UsedIsGone /\ Si!VerifiedByOwnCode

LEMMA SignInit == Si!Init => SignInv
<1> SUFFICES ASSUME Si!Init PROVE SignInv
  OBVIOUS
<1> USE SignInAssumption
<1>1. PICK a \in 0 .. 2, s \in {1, Si!ResendLimit}, v \in BOOLEAN :
        /\ v => a = 1
        /\ temp = {[otp |-> First, attempt |-> a, sent |-> s, verified |-> v, age |-> 1]}
        /\ compared = [c \in Si!Codes |-> IF c = First THEN a ELSE 0]
        /\ entered = {c \in {First} : v}
  BY DEF Si!Init
<1> DEFINE row == [otp |-> First, attempt |-> a, sent |-> s, verified |-> v, age |-> 1]
<1>2. row \in Si!Row /\ row.otp = First /\ row.attempt = a /\ row.verified = v
  BY DEF Si!Row, Si!Codes, Si!RetryLimit, Si!ResendLimit
<1> HIDE DEF row
<1>3. temp = {row} /\ replica = {row}
  BY <1>1 DEF Si!Init, row
<1>4. /\ channel \in {"mobile", "email"}
      /\ kind \in [Requests -> {"send", "verify", "put", "token", "sid"}]
      /\ pc = [r \in Requests |-> "idle"] /\ copy = [r \in Requests |-> None]
      /\ lock = [l \in Si!Locks |-> None] /\ hooks = 0 /\ accounts = <<>>
      /\ used = [c \in Si!Codes |-> 0] /\ odd = {}
  BY DEF Si!Init
<1>5. SignInTyped
  BY <1>1, <1>2, <1>3, <1>4 DEF SignInTyped, Si!TypeOK, SignInSteps, Si!MaxHooks, Si!Odds, Si!Codes
<1>6. StepsFit
  BY <1>4 DEF StepsFit
<1>7. LocksHeld /\ OneVerifies /\ OnePuts
  BY <1>4 DEF LocksHeld, OneVerifies, OnePuts, Si!Verifying, Si!Putting
<1>8. AccountBuilt
  BY <1>4 DEF AccountBuilt
<1>9. FreshCodes
  BY <1>1, <1>2, <1>3, <1>4 DEF FreshCodes, Unsent, Si!Codes
<1>10. OneRow
  BY <1>3 DEF OneRow
<1>11. AttemptsCount
  BY <1>1, <1>2, <1>3, <1>4 DEF AttemptsCount, Si!RetryLimit, Si!Codes
<1>12. UsedIsGone
  BY <1>2, <1>3, <1>4 DEF UsedIsGone, Si!Codes
<1>13. Si!VerifiedByOwnCode
  BY <1>1, <1>2, <1>3 DEF Si!VerifiedByOwnCode
<1> QED BY <1>5, <1>6, <1>7, <1>8, <1>9, <1>10, <1>11, <1>12, <1>13 DEF SignInv

LEMMA SignStep ==
    ASSUME SignInv, [Si!Next]_(Si!vars)
    PROVE  SignInv'
BY LocksStep, VerifierStep, PutterStep, SignInAccountStep, FreshStep, RowStep, AttemptsStep, UsedStep,
   VerifiedStep, FitsStep, SignInTypedStep DEF SignInv

LEMMA SignInvariant == Si!Spec => []SignInv
BY SignInit, SignStep, PTL DEF Si!Spec

\* Every variable of the sign-in has its type.
LEMMA SignInTypes == Si!Spec => []Si!TypeOK
<1>1. SignInv => Si!TypeOK
  BY DEF SignInv, SignInTyped
<1> QED BY <1>1, SignInvariant, PTL

\* A person gets one account and one joining bonus.
LEMMA SignedUp == Si!Spec => []Si!SignedUpOnce
<1>1. ASSUME SignInv PROVE Si!SignedUpOnce
  <2>1. Len(<<>>) = 0 /\ Len(<<0>>) = 1 /\ Len(<<1>>) = 1
    OBVIOUS
  <2>2. Si!OneAccount
    <3>1. CASE Clean({"lapsed", "twoNames"})
      <4>1. accounts \in {<<>>, <<0>>, <<1>>}
        BY <1>1, <3>1 DEF SignInv, AccountBuilt
      <4>2. Len(accounts) = 0 \/ Len(accounts) = 1
        BY <2>1, <4>1
      <4>3. Len(accounts) <= 1
        BY <4>2
      <4> QED BY <4>3 DEF Si!OneAccount
    <3>2. CASE ~Clean({"lapsed", "twoNames"})
      BY <3>2 DEF Si!OneAccount, Clean
    <3> QED BY <3>1, <3>2
  <2>3. Si!BonusOnce
    <3>1. SUFFICES ASSUME NEW i \in DOMAIN accounts, Clean({"lapsed", "twoNames"}), "broken" \notin odd
                   PROVE  accounts[i] = 1 \/ (accounts[i] = 0 /\ \E r \in Requests : pc[r] = "bonus")
      BY DEF Si!BonusOnce, Clean
    <3>2. accounts = <<1>> \/ (accounts = <<0>> /\ \E r \in Requests : pc[r] = "bonus")
      BY <1>1, <3>1 DEF SignInv, AccountBuilt, Clean
    <3> QED BY <3>1, <3>2
  <2> QED BY <2>2, <2>3 DEF Si!SignedUpOnce
<1> QED BY <1>1, SignInvariant, PTL

\* A code is compared less often than the limit and used once, and who is verified has
\* entered one.
LEMMA CodeKept == Si!Spec => []Si!CodeHolds
<1>1. ASSUME SignInv PROVE Si!CodeHolds
  <2>1. Si!RetriesBounded
    BY <1>1 DEF SignInv, AttemptsCount, Si!RetriesBounded, Clean
  <2>2. Si!CodeUsedOnce
    BY <1>1 DEF SignInv, UsedIsGone, Si!CodeUsedOnce, Clean
  <2> QED BY <1>1, <2>1, <2>2 DEF SignInv, Si!CodeHolds
<1> QED BY <1>1, SignInvariant, PTL

-------------------------------------------------------------------------------
(* BANK DETAILS.  Between the gateway and the table a request knows which    *)
(* account the user has (Between, Knows), and there is one such request.     *)

(* The invariant *)

BankSteps == {"idle", "done", "setKey", "check", "list", "gateway", "choose", "unset", "row", "unsetOld",
          "removal", "replaced", "addKyc", "addition", "insert"}

BankRequestsTyped ==
    /\ kind \in [Requests -> Ba!Kinds] /\ account \in [Requests -> Ba!Accounts] /\ pc \in [Requests -> BankSteps]
    /\ seen \in [Requests -> Ba!Accounts \union {None}]
    /\ answer \in [Requests -> {"none", "SUCCESS", "404", "error"}]
StoresTyped ==
    /\ bank \in [Pair -> SUBSET Ba!Accounts] /\ replica \in [Pair -> SUBSET Ba!Accounts]
    /\ \A u \in Pair : bank[u] \subseteq Ba!Of(u) /\ replica[u] \subseteq Ba!Of(u)
    /\ beneficiary \in [Pair -> Ba!Accounts \union {None}] /\ equal \subseteq Ba!Accounts
OthersTyped ==
    /\ bankDeets \subseteq Ba!Accounts /\ detailsToDelete \in Ba!Accounts \union {None}
    /\ verified \in [Ba!Accounts -> {"P", "A", "R"}] /\ kycstatus \in [Pair -> {"I", "P", "C"}]
    /\ key \in [Pair -> BOOLEAN] /\ odd \subseteq Ba!Odds
BankTyped == BankRequestsTyped /\ StoresTyped /\ OthersTyped

\* What the named exceptions excuse
Excused(u) == Ba!Went(u, {"stale", "broken", "lost", "overlap", "crossed"})
ExcusedToo(u) == Excused(u) \/ Ba!Went(u, {"notFound"})

\* The user's row is the gateway's beneficiary.
Synced(u) == bank[u] = IF beneficiary[u] = None THEN {} ELSE {beneficiary[u]}

\* Where a request of u stands between the gateway and the table
Between(r, u) ==
    /\ pc[r] \in {"setKey", "check", "list", "gateway", "removal", "addKyc", "addition", "unsetOld"} => Synced(u)
    /\ pc[r] \in {"choose", "unset", "row", "replaced"} =>
          /\ answer[r] # "SUCCESS" => Synced(u)
          /\ answer[r] # "error" => beneficiary[u] = None
    /\ pc[r] = "insert" =>
          /\ beneficiary[u] # None
          /\ IF bank[u] = {} THEN beneficiary[u] = account[r] ELSE Synced(u)

OneAtATime(u) == \A r, q \in Ba!Active(u) : r = q

PaidFor(u) ==
    /\ OneAtATime(u)
    /\ \A a, b \in bank[u] : a = b
    /\ Ba!Active(u) = {} => Synced(u)
    /\ \A r \in Ba!Active(u) : Between(r, u)

\* What a request of u knows of the account it removes
Knows(r, u) ==
    /\ IF pc[r] = "unsetOld" THEN equal \intersect Ba!Of(u) \subseteq {seen[r]}
       ELSE equal \intersect Ba!Of(u) \subseteq bank[u]
    /\ pc[r] = "choose" \/ (pc[r] = "gateway" /\ kind[r] = "remove") => bankDeets \intersect Ba!Of(u) \subseteq bank[u]
    /\ pc[r] = "row" /\ kind[r] = "remove" => equal \intersect Ba!Of(u) = {}
    /\ \/ pc[r] \in {"unset", "removal", "replaced"}
       \/ kind[r] = "removeOld" /\ pc[r] \in {"gateway", "row"}
       => seen[r] \in Ba!Of(u) /\ bank[u] \subseteq {seen[r]}
    /\ pc[r] = "row" /\ kind[r] = "removeOld" => answer[r] # "none"
    /\ pc[r] = "unsetOld" => seen[r] \in Ba!Of(u) /\ bank[u] = {}

UnsetFor(u) ==
    /\ Ba!Active(u) = {} => equal \intersect Ba!Of(u) \subseteq bank[u]
    /\ \A r \in Ba!Active(u) : Knows(r, u)

AllPaid == \A u \in Pair : ~Excused(u) => PaidFor(u)
AllUnset == \A u \in Pair : ~ExcusedToo(u) => UnsetFor(u)
-------------------------------------------------------------------------------
(* What a request's step changes *)

Starting(r) == Ba!AddPass(r) \/ Ba!RemovePass(r) \/ Ba!ApproveRead(r)
Refused(r) == Ba!AddInProgress(r) \/ Ba!RemoveRefuse(r) \/ Ba!Reject(r)
BankGoing(r) ==
    \/ Ba!AddSetKey(r) \/ Ba!AddRefuse(r) \/ Ba!AddAccount(r)
    \/ Ba!RemoveList(r) \/ Ba!RemoveOldRead(r) \/ Ba!RemoveAtGateway(r)
    \/ Ba!RemoveChoose(r) \/ Ba!RemoveUnset(r) \/ Ba!RemoveRow(r) \/ Ba!RemoveOldUnset(r)
    \/ Ba!ApproveAddKyc(r) \/ Ba!ApproveRemoval(r) \/ Ba!ApproveReplace(r)
    \/ Ba!ApproveAddition(r) \/ Ba!ApproveDenied(r) \/ Ba!ApproveInsert(r) \/ Ba!BreakOff(r)
BankAct(r) == Starting(r) \/ Refused(r) \/ BankGoing(r)

LEMMA UserOf ==
    ASSUME BankTyped, NEW r \in Requests
    PROVE  /\ Ba!User(r) \in Pair /\ account[r] \in Ba!Of(Ba!User(r)) /\ account[r] \in Ba!Accounts /\ account[r] # None
           /\ kind[r] \in Ba!Kinds /\ pc[r] \in BankSteps
BY BankAssumption DEF BankTyped, BankRequestsTyped, Ba!Accounts, Ba!Of, Ba!User

\* Every history is kept, and what excuses a user excuses him for ever.
LEMMA OddGrows ==
    ASSUME NEW u \in Pair, odd \subseteq odd'
    PROVE  (~Excused(u)' => ~Excused(u)) /\ (~ExcusedToo(u)' => ~ExcusedToo(u))
BY DEF Excused, ExcusedToo, Ba!Went

\* The requests keep their types.
LEMMA BankRequestsStep ==
    ASSUME BankTyped, [Ba!Next]_(Ba!vars)
    PROVE  BankRequestsTyped'
<1> USE DEF BankTyped, BankRequestsTyped
<1>1. CASE UNCHANGED Ba!vars
  BY <1>1 DEF Ba!vars
<1>2. ASSUME NEW r \in Requests, NEW step \in BankSteps, Ba!Go(r, step), UNCHANGED <<kind, account>>,
             seen' = seen \/ \E a \in Ba!Accounts \union {None} : seen' = [seen EXCEPT ![r] = a],
             answer' = answer \/ \E a \in {"SUCCESS", "404", "error"} : answer' = [answer EXCEPT ![r] = a]
      PROVE  BankRequestsTyped'
  BY <1>2 DEF Ba!Go
<1>3. ASSUME NEW r \in Requests, Starting(r) PROVE BankRequestsTyped'
  <2>1. \A u \in Pair : replica[u] \subseteq Ba!Accounts
    BY DEF StoresTyped
  <2>2. Ba!User(r) \in Pair
    BY UserOf
  <2>3. CASE Ba!AddPass(r)
    BY <1>2, <2>3 DEF Ba!AddPass, Ba!Start, BankSteps
  <2>4. CASE Ba!RemovePass(r)
    BY <1>2, <2>4 DEF Ba!RemovePass, Ba!Start, BankSteps
  <2>5. CASE Ba!ApproveRead(r)
    <3>1. seen' = seen \/ \E a \in Ba!Accounts \union {None} : seen' = [seen EXCEPT ![r] = a]
      BY <2>1, <2>2, <2>5 DEF Ba!ApproveRead
    <3>2. \E step \in BankSteps : Ba!Go(r, step)
      BY <2>5 DEF Ba!ApproveRead, BankSteps
    <3> QED BY <1>2, <2>5, <3>1, <3>2 DEF Ba!ApproveRead
  <2> QED BY <1>3, <2>3, <2>4, <2>5 DEF Starting
<1>4. ASSUME NEW r \in Requests, Refused(r) PROVE BankRequestsTyped'
  BY <1>2, <1>4 DEF Refused, Ba!AddInProgress, Ba!RemoveRefuse, Ba!Reject, BankSteps
<1>5. ASSUME NEW r \in Requests, BankGoing(r) PROVE BankRequestsTyped'
  <2>1. \A u \in Pair : replica[u] \subseteq Ba!Accounts
    BY DEF StoresTyped
  <2>2. Ba!User(r) \in Pair
    BY UserOf
  <2>3. \E step \in BankSteps : Ba!Go(r, step)
    BY <1>5 DEF BankGoing, Ba!AddSetKey, Ba!AddRefuse, Ba!AddAccount, Ba!RemoveList, Ba!RemoveOldRead, Ba!RemoveAtGateway,
                Ba!RemoveChoose, Ba!RemoveUnset, Ba!RemoveRow, Ba!RemoveOldUnset, Ba!ApproveAddKyc, Ba!ApproveRemoval,
                Ba!ApproveReplace, Ba!ApproveAddition, Ba!ApproveDenied, Ba!ApproveInsert, Ba!BreakOff, Ba!GatewayRemoves, BankSteps
  <2>4. seen' = seen \/ \E a \in Ba!Accounts \union {None} : seen' = [seen EXCEPT ![r] = a]
    <3>1. CASE Ba!RemoveOldRead(r)
      BY <2>1, <2>2, <3>1 DEF Ba!RemoveOldRead
    <3>2. CASE Ba!RemoveChoose(r)
      BY <3>2 DEF Ba!RemoveChoose, OthersTyped
    <3> QED BY <1>5, <3>1, <3>2 DEF BankGoing, Ba!AddSetKey, Ba!AddRefuse, Ba!AddAccount, Ba!RemoveList, Ba!RemoveAtGateway,
                Ba!RemoveUnset, Ba!RemoveRow, Ba!RemoveOldUnset, Ba!ApproveAddKyc, Ba!ApproveRemoval,
                Ba!ApproveReplace, Ba!ApproveAddition, Ba!ApproveDenied, Ba!ApproveInsert, Ba!BreakOff
  <2>5. answer' = answer \/ \E a \in {"SUCCESS", "404", "error"} : answer' = [answer EXCEPT ![r] = a]
    <3>1. Ba!GatewayRemoves(r, "choose") \/ Ba!GatewayRemoves(r, "row") \/ Ba!GatewayRemoves(r, "replaced") =>
             \E a \in {"SUCCESS", "404", "error"} : answer' = [answer EXCEPT ![r] = a]
      BY DEF Ba!GatewayRemoves, Ba!Answers
    <3> QED BY <1>5, <3>1 DEF BankGoing, Ba!AddSetKey, Ba!AddRefuse, Ba!AddAccount, Ba!RemoveList, Ba!RemoveOldRead, Ba!RemoveAtGateway,
                Ba!RemoveChoose, Ba!RemoveUnset, Ba!RemoveRow, Ba!RemoveOldUnset, Ba!ApproveAddKyc, Ba!ApproveRemoval,
                Ba!ApproveReplace, Ba!ApproveAddition, Ba!ApproveDenied, Ba!ApproveInsert, Ba!BreakOff
  <2>6. UNCHANGED <<kind, account>>
    BY <1>5 DEF BankGoing, Ba!AddSetKey, Ba!AddRefuse, Ba!AddAccount, Ba!RemoveList, Ba!RemoveOldRead, Ba!RemoveAtGateway,
                Ba!RemoveChoose, Ba!RemoveUnset, Ba!RemoveRow, Ba!RemoveOldUnset, Ba!ApproveAddKyc, Ba!ApproveRemoval,
                Ba!ApproveReplace, Ba!ApproveAddition, Ba!ApproveDenied, Ba!ApproveInsert, Ba!BreakOff
  <2> QED BY <1>2, <2>3, <2>4, <2>5, <2>6
<1>6. CASE Ba!Crash
  BY <1>6 DEF Ba!Crash, BankSteps
<1>7. CASE Ba!Replicate \/ Ba!KeyExpire \/ Ba!Withdraw
  BY <1>7 DEF Ba!Replicate, Ba!KeyExpire, Ba!Withdraw
<1> QED BY <1>1, <1>3, <1>4, <1>5, <1>6, <1>7 DEF Ba!Next, Starting, Refused, BankGoing

\* A request's step touches the other requests and users in nothing but the list that
\* was read last, and no user's account is in another user's.
LEMMA BankActFrame ==
    ASSUME BankTyped, NEW r \in Requests, BankAct(r)
    PROVE  /\ kind' = kind /\ account' = account /\ replica' = replica /\ withdrawing' = withdrawing
           /\ \A q \in Requests \ {r} : pc'[q] = pc[q] /\ seen'[q] = seen[q] /\ answer'[q] = answer[q]
           /\ \A v \in Pair \ {Ba!User(r)} : bank'[v] = bank[v] /\ beneficiary'[v] = beneficiary[v]
           /\ \A v \in Pair \ {Ba!User(r)} : equal' \intersect Ba!Of(v) = equal \intersect Ba!Of(v)
           /\ \A v \in Pair \ {Ba!User(r)} : bankDeets' \intersect Ba!Of(v) \subseteq bankDeets \intersect Ba!Of(v)
           /\ odd \subseteq odd'
<1> DEFINE u == Ba!User(r)
<1>1. u \in Pair /\ account[r] \in Ba!Of(u)
  BY UserOf
<1>2. \A v \in Pair \ {u} : Ba!Of(u) \intersect Ba!Of(v) = {}
  BY DEF Ba!Of
<1> USE DEF BankAct, Starting, Refused, BankGoing, Ba!AddInProgress, Ba!AddPass, Ba!AddSetKey, Ba!AddRefuse, Ba!AddAccount,
            Ba!RemoveRefuse, Ba!RemovePass, Ba!RemoveList, Ba!RemoveOldRead, Ba!RemoveAtGateway, Ba!RemoveChoose,
            Ba!RemoveUnset, Ba!RemoveRow, Ba!RemoveOldUnset, Ba!ApproveRead, Ba!ApproveAddKyc, Ba!ApproveRemoval,
            Ba!ApproveReplace, Ba!ApproveAddition, Ba!ApproveDenied, Ba!ApproveInsert, Ba!Reject, Ba!BreakOff
<1>3. /\ kind' = kind /\ account' = account /\ replica' = replica /\ withdrawing' = withdrawing
      /\ \A q \in Requests \ {r} : pc'[q] = pc[q]
  BY DEF Ba!Start, Ba!GatewayRemoves, Ba!Go, Ba!stores,
         BankTyped, BankRequestsTyped
<1>4. \A q \in Requests \ {r} : seen'[q] = seen[q]
  BY DEF BankTyped, BankRequestsTyped
<1>5. \A q \in Requests \ {r} : answer'[q] = answer[q]
  BY DEF Ba!GatewayRemoves, BankTyped, BankRequestsTyped
<1>6. \A v \in Pair \ {u} : bank'[v] = bank[v]
  BY DEF Ba!stores, BankTyped, StoresTyped
<1>7. \A v \in Pair \ {u} : beneficiary'[v] = beneficiary[v]
  BY DEF Ba!GatewayRemoves, Ba!stores,
         BankTyped, StoresTyped
<1>8. \A v \in Pair \ {u} : equal' \intersect Ba!Of(v) = equal \intersect Ba!Of(v)
  <2>1. equal' = equal \/ equal' = equal \union {account[r]} \/ Ba!Unset(u, seen[r])
    BY DEF Ba!stores
  <2> QED BY <1>1, <1>2, <2>1 DEF Ba!Unset
<1>9. \A v \in Pair \ {u} : bankDeets' \intersect Ba!Of(v) \subseteq bankDeets \intersect Ba!Of(v)
  <2>1. bankDeets' = bankDeets \/ bankDeets' = replica[u]
    BY DEF Ba!globals
  <2>2. replica[u] \subseteq Ba!Of(u)
    BY <1>1 DEF BankTyped, StoresTyped
  <2> QED BY <1>2, <2>1, <2>2
<1>10. odd \subseteq odd'
  <2>1. \A w, x, c : Ba!Mark(w, x, c) => odd \subseteq odd'
    BY DEF Ba!Mark
  <2> QED BY <2>1 DEF Ba!Start, Ba!GatewayRemoves
<1> QED BY <1>3, <1>4, <1>5, <1>6, <1>7, <1>8, <1>9, <1>10

\* The stores keep their types.
LEMMA StoresStep ==
    ASSUME BankTyped, [Ba!Next]_(Ba!vars)
    PROVE  StoresTyped'
<1> USE DEF BankTyped, StoresTyped
<1>1. CASE UNCHANGED Ba!vars
  BY <1>1 DEF Ba!vars, Ba!stores
<1>2. \A u \in Pair : Ba!Of(u) \subseteq Ba!Accounts
  BY DEF Ba!Of
<1>3. ASSUME NEW r \in Requests, BankAct(r) PROVE StoresTyped'
  <2> DEFINE u == Ba!User(r)
  <2>1. u \in Pair /\ account[r] \in Ba!Of(u) /\ account[r] \in Ba!Accounts
    BY UserOf
  <2> USE DEF BankAct, Starting, Refused, BankGoing, Ba!AddInProgress, Ba!AddPass, Ba!AddSetKey, Ba!AddRefuse, Ba!AddAccount,
              Ba!RemoveRefuse, Ba!RemovePass, Ba!RemoveList, Ba!RemoveOldRead, Ba!RemoveAtGateway, Ba!RemoveChoose,
              Ba!RemoveUnset, Ba!RemoveRow, Ba!RemoveOldUnset, Ba!ApproveRead, Ba!ApproveAddKyc, Ba!ApproveRemoval,
              Ba!ApproveReplace, Ba!ApproveAddition, Ba!ApproveDenied, Ba!ApproveInsert, Ba!Reject, Ba!BreakOff
  <2>2. \/ bank' = bank \/ bank' = [bank EXCEPT ![u] = {}] \/ bank' = [bank EXCEPT ![u] = {account[r]}]
        \/ bank' = [bank EXCEPT ![u] = bank[u] \union {account[r]}]
    BY <1>3, <2>1 DEF Ba!stores
  <2>3. bank' \in [Pair -> SUBSET Ba!Accounts] /\ \A v \in Pair : bank'[v] \subseteq Ba!Of(v)
    BY <1>2, <2>1, <2>2
  <2>4. \/ beneficiary' = beneficiary \/ beneficiary' = [beneficiary EXCEPT ![u] = None]
        \/ beneficiary' = [beneficiary EXCEPT ![u] = account[r]]
    BY <1>3 DEF Ba!GatewayRemoves, Ba!stores
  <2>5. beneficiary' \in [Pair -> Ba!Accounts \union {None}]
    BY <2>1, <2>4
  <2>6. equal' = equal \/ equal' = equal \union {account[r]} \/ Ba!Unset(u, seen[r])
    BY <1>3 DEF Ba!stores
  <2>7. equal' \subseteq Ba!Accounts
    BY <2>1, <2>6 DEF Ba!Unset
  <2> QED BY <1>3, <2>3, <2>5, <2>7, BankActFrame
<1>4. CASE Ba!Crash \/ Ba!KeyExpire \/ Ba!Withdraw
  BY <1>4 DEF Ba!Crash, Ba!KeyExpire, Ba!Withdraw, Ba!stores
<1>5. CASE Ba!Replicate
  BY <1>5 DEF Ba!Replicate
<1> QED BY <1>1, <1>3, <1>4, <1>5 DEF Ba!Next, BankAct, Starting, Refused, BankGoing

\* A mark in the history is well formed.
LEMMA MarkTyped ==
    ASSUME BankTyped, NEW u \in Pair
    PROVE  \A w \in {"stale", "crossed", "broken", "lost", "overlap", "notFound", "late"} : \A c :
               /\ Ba!Mark(w, u, c) => odd' \subseteq Ba!Odds
               /\ Ba!When(w, u, c) \subseteq Ba!Odds
BY DEF BankTyped, OthersTyped, Ba!Mark, Ba!When, Ba!Odds

\* The other variables keep their types.
LEMMA OthersStep ==
    ASSUME BankTyped, [Ba!Next]_(Ba!vars)
    PROVE  OthersTyped'
<1> USE DEF BankTyped, OthersTyped
<1>1. CASE UNCHANGED Ba!vars
  BY <1>1 DEF Ba!vars, Ba!globals, Ba!stores
<1>2. ASSUME NEW r \in Requests, BankAct(r) PROVE OthersTyped'
  <2> DEFINE u == Ba!User(r)
  <2>1. u \in Pair /\ account[r] \in Ba!Accounts /\ replica[u] \subseteq Ba!Accounts
    BY UserOf DEF StoresTyped
  <2> USE DEF BankAct, Starting, Refused, BankGoing, Ba!AddInProgress, Ba!AddPass, Ba!AddSetKey, Ba!AddRefuse, Ba!AddAccount,
              Ba!RemoveRefuse, Ba!RemovePass, Ba!RemoveList, Ba!RemoveOldRead, Ba!RemoveAtGateway, Ba!RemoveChoose,
              Ba!RemoveUnset, Ba!RemoveRow, Ba!RemoveOldUnset, Ba!ApproveRead, Ba!ApproveAddKyc, Ba!ApproveRemoval,
              Ba!ApproveReplace, Ba!ApproveAddition, Ba!ApproveDenied, Ba!ApproveInsert, Ba!Reject, Ba!BreakOff
  <2>2. bankDeets' = bankDeets \/ bankDeets' = replica[u]
    BY <1>2 DEF Ba!globals
  <2>3. detailsToDelete' = detailsToDelete \/ detailsToDelete' \in bankDeets
    BY <1>2 DEF Ba!globals
  <2>4. verified' = verified \/ \E x \in {"P", "A", "R"} : verified' = [verified EXCEPT ![account[r]] = x]
    BY <1>2 DEF Ba!stores
  <2>5. kycstatus' = kycstatus \/ \E x \in {"I", "P", "C"} : kycstatus' = [kycstatus EXCEPT ![u] = x]
    BY <1>2 DEF Ba!stores
  <2>6. key' = key \/ \E x \in BOOLEAN : key' = [key EXCEPT ![u] = x]
    BY <1>2
  <2>7. odd' \subseteq Ba!Odds
    <3>1. CASE Ba!ApproveRead(r)
      BY <2>1, <3>1, MarkTyped DEF Ba!ApproveRead
    <3>2. CASE odd' = odd
      BY <3>2
    <3>3. odd' = odd \/ (\E w \in {"stale", "crossed", "broken", "lost", "overlap", "notFound", "late"} : \E c :
                            Ba!Mark(w, u, c)) \/ Ba!ApproveRead(r)
      BY <1>2 DEF Ba!Start, Ba!GatewayRemoves
    <3> QED BY <2>1, <3>1, <3>2, <3>3, MarkTyped
  <2> QED BY <2>1, <2>2, <2>3, <2>4, <2>5, <2>6, <2>7
<1>3. CASE Ba!Crash
  <2>1. {Ba!User(r) : r \in {q \in Requests : ~Ba!Ended(q)}} \subseteq Pair
    BY UserOf
  <2>2. odd' \subseteq Ba!Odds
    BY <1>3, <2>1 DEF Ba!Crash, Ba!Odds
  <2> QED BY <1>3, <2>2 DEF Ba!Crash, Ba!stores
<1>4. CASE Ba!Replicate
  BY <1>4 DEF Ba!Replicate, Ba!globals
<1>5. CASE Ba!KeyExpire
  BY <1>5 DEF Ba!KeyExpire, Ba!globals, Ba!stores
<1>6. CASE Ba!Withdraw
  BY <1>6, MarkTyped DEF Ba!Withdraw, Ba!globals, Ba!stores
<1> QED BY <1>1, <1>2, <1>3, <1>4, <1>5, <1>6 DEF Ba!Next, BankAct, Starting, Refused, BankGoing

LEMMA BankTypedStep ==
    ASSUME BankTyped, [Ba!Next]_(Ba!vars)
    PROVE  BankTyped'
BY BankRequestsStep, StoresStep, OthersStep DEF BankTyped

-------------------------------------------------------------------------------
(* Paid is shown *)

LEMMA BankGoes ==
    ASSUME BankTyped, NEW r \in Requests, NEW step, Ba!Go(r, step)
    PROVE  pc'[r] = step
BY DEF BankTyped, BankRequestsTyped, Ba!Go

\* Who the requests of a user are after a step of one of them
LEMMA ActiveChange ==
    ASSUME BankTyped, NEW r \in Requests, BankAct(r), NEW u \in Pair
    PROVE  /\ u # Ba!User(r) => Ba!Active(u)' = Ba!Active(u)
           /\ \A q \in Ba!Active(u)' : q # r => q \in Ba!Active(u)
           /\ r \in Ba!Active(u)' => Ba!User(r) = u /\ pc'[r] \notin {"idle", "done"}
           /\ Ba!User(r) = u /\ r \notin Ba!Active(u)' => pc'[r] \in {"idle", "done"}
<1>1. account' = account /\ \A q \in Requests \ {r} : pc'[q] = pc[q]
  BY BankActFrame
<1> QED BY <1>1 DEF Ba!Active, Ba!User

\* Where a step leads
LEMMA BankPlaces ==
    ASSUME BankTyped, NEW r \in Requests
    PROVE  /\ Refused(r) => pc[r] = "idle" /\ pc'[r] = "done"
           /\ Starting(r) => pc[r] = "idle"
           /\ BankGoing(r) => pc[r] \notin {"idle", "done"}
           /\ Ba!AddPass(r) => pc'[r] = "setKey"
           /\ Ba!RemovePass(r) => pc'[r] = "list"
           /\ Ba!ApproveRead(r) => pc'[r] = IF replica[Ba!User(r)] = {} THEN "addKyc" ELSE "removal"
           /\ Ba!AddSetKey(r) => pc'[r] = "check"
           /\ Ba!AddRefuse(r) \/ Ba!AddAccount(r) \/ Ba!RemoveOldUnset(r) \/ Ba!ApproveDenied(r) \/ Ba!ApproveInsert(r)
                 \/ Ba!BreakOff(r) => pc'[r] = "done"
           /\ Ba!RemoveList(r) => pc'[r] = "gateway"
           /\ Ba!RemoveOldRead(r) => pc'[r] = IF replica[Ba!User(r)] = {} THEN "done" ELSE "gateway"
           /\ Ba!RemoveAtGateway(r) => pc'[r] \in {IF kind[r] = "remove" THEN "choose" ELSE "row", "done"}
           /\ Ba!RemoveChoose(r) => pc'[r] = IF detailsToDelete' = None THEN "done" ELSE "unset"
           /\ Ba!RemoveUnset(r) => pc'[r] = "row"
           /\ Ba!RemoveRow(r) => pc'[r] = IF kind[r] = "removeOld" /\ answer[r] = "SUCCESS" THEN "unsetOld" ELSE "done"
           /\ Ba!ApproveAddKyc(r) \/ Ba!ApproveReplace(r) => pc'[r] = "addition"
           /\ Ba!ApproveRemoval(r) => pc'[r] \in {"replaced", "done"}
           /\ Ba!ApproveAddition(r) => pc'[r] \in {"insert", "done"}
<1>1. \A step : Ba!Go(r, step) => pc'[r] = step
  BY BankGoes
<1>2. Refused(r) => pc[r] = "idle" /\ pc'[r] = "done"
  BY <1>1 DEF Refused, Ba!AddInProgress, Ba!RemoveRefuse, Ba!Reject, Ba!At
<1>3. Starting(r) => pc[r] = "idle"
  BY DEF Starting, Ba!AddPass, Ba!RemovePass, Ba!ApproveRead, Ba!Start, Ba!At
<1>4. BankGoing(r) => pc[r] \notin {"idle", "done"}
  BY DEF BankGoing, Ba!AddSetKey, Ba!AddRefuse, Ba!AddAccount, Ba!RemoveList, Ba!RemoveOldRead, Ba!RemoveAtGateway, Ba!RemoveChoose,
         Ba!RemoveUnset, Ba!RemoveRow, Ba!RemoveOldUnset, Ba!ApproveAddKyc, Ba!ApproveRemoval, Ba!ApproveReplace,
         Ba!ApproveAddition, Ba!ApproveDenied, Ba!ApproveInsert, Ba!BreakOff, Ba!Ended, Ba!At
<1>5. /\ Ba!AddPass(r) => pc'[r] = "setKey"
      /\ Ba!RemovePass(r) => pc'[r] = "list"
      /\ Ba!ApproveRead(r) => pc'[r] = IF replica[Ba!User(r)] = {} THEN "addKyc" ELSE "removal"
      /\ Ba!AddSetKey(r) => pc'[r] = "check"
  BY <1>1 DEF Ba!AddPass, Ba!RemovePass, Ba!ApproveRead, Ba!AddSetKey, Ba!Start
<1>6. Ba!AddRefuse(r) \/ Ba!AddAccount(r) \/ Ba!RemoveOldUnset(r) \/ Ba!ApproveDenied(r) \/ Ba!ApproveInsert(r)
         \/ Ba!BreakOff(r) => pc'[r] = "done"
  BY <1>1 DEF Ba!AddRefuse, Ba!AddAccount, Ba!RemoveOldUnset, Ba!ApproveDenied, Ba!ApproveInsert, Ba!BreakOff
<1>7. /\ Ba!RemoveList(r) => pc'[r] = "gateway"
      /\ Ba!RemoveOldRead(r) => pc'[r] = IF replica[Ba!User(r)] = {} THEN "done" ELSE "gateway"
      /\ Ba!RemoveAtGateway(r) => pc'[r] \in {IF kind[r] = "remove" THEN "choose" ELSE "row", "done"}
  BY <1>1 DEF Ba!RemoveList, Ba!RemoveOldRead, Ba!RemoveAtGateway, Ba!GatewayRemoves
<1>8. /\ Ba!RemoveChoose(r) => pc'[r] = IF detailsToDelete' = None THEN "done" ELSE "unset"
      /\ Ba!RemoveUnset(r) => pc'[r] = "row"
      /\ Ba!RemoveRow(r) => pc'[r] = IF kind[r] = "removeOld" /\ answer[r] = "SUCCESS" THEN "unsetOld" ELSE "done"
  BY <1>1 DEF Ba!RemoveChoose, Ba!RemoveUnset, Ba!RemoveRow
<1>9. /\ Ba!ApproveAddKyc(r) \/ Ba!ApproveReplace(r) => pc'[r] = "addition"
      /\ Ba!ApproveRemoval(r) => pc'[r] \in {"replaced", "done"}
      /\ Ba!ApproveAddition(r) => pc'[r] \in {"insert", "done"}
  BY <1>1 DEF Ba!ApproveAddKyc, Ba!ApproveReplace, Ba!ApproveRemoval, Ba!ApproveAddition, Ba!GatewayRemoves
<1> QED BY <1>2, <1>3, <1>4, <1>5, <1>6, <1>7, <1>8, <1>9

\* What a user nothing excuses has not met
LEMMA Unmarked ==
    ASSUME BankTyped, NEW r \in Requests, NEW u \in Pair, u = Ba!User(r), ~Excused(u)'
    PROVE  /\ Starting(r) => Ba!Active(u) = {}
           /\ Ba!RemoveList(r) \/ Ba!RemoveOldRead(r) \/ Ba!ApproveRead(r) \/ Ba!ApproveDenied(r) \/ Ba!ApproveInsert(r) =>
                 replica[u] = bank[u]
           /\ Ba!RemoveAtGateway(r) \/ Ba!ApproveRemoval(r) => pc'[r] # "done"
           /\ Ba!RemoveChoose(r) => bankDeets \intersect Ba!Of(u) # {}
           /\ Ba!ApproveAddition(r) /\ pc'[r] = "done" => beneficiary' = beneficiary
           /\ ~Ba!BreakOff(r)
<1>1. ASSUME NEW w \in {"stale", "broken", "lost", "overlap", "crossed"}, [what |-> w, of |-> u] \in odd'
      PROVE  FALSE
  BY <1>1 DEF Excused, Ba!Went
<1>2. Starting(r) => Ba!Active(u) = {}
  <2>1. CASE Ba!ApproveRead(r)
    BY <1>1, <2>1 DEF Ba!ApproveRead, Ba!When
  <2>2. CASE Ba!AddPass(r) \/ Ba!RemovePass(r)
    BY <1>1, <2>2 DEF Ba!AddPass, Ba!RemovePass, Ba!Start, Ba!Mark, Ba!When
  <2> QED BY <2>1, <2>2 DEF Starting
<1>3. Ba!RemoveList(r) \/ Ba!RemoveOldRead(r) \/ Ba!ApproveRead(r) \/ Ba!ApproveDenied(r) \/ Ba!ApproveInsert(r) =>
         replica[u] = bank[u]
  BY <1>1 DEF Ba!RemoveList, Ba!RemoveOldRead, Ba!ApproveRead, Ba!ApproveDenied, Ba!ApproveInsert, Ba!Mark, Ba!When
<1>4. Ba!RemoveAtGateway(r) \/ Ba!ApproveRemoval(r) => pc'[r] # "done"
  <2>1. ASSUME NEW step, step # "done", Ba!GatewayRemoves(r, step) PROVE pc'[r] # "done"
    BY <1>1, <2>1, BankGoes DEF Ba!GatewayRemoves, Ba!Mark, Ba!When
  <2> QED BY <2>1 DEF Ba!RemoveAtGateway, Ba!ApproveRemoval
<1>5. Ba!RemoveChoose(r) => bankDeets \intersect Ba!Of(u) # {}
  BY <1>1 DEF Ba!RemoveChoose, Ba!Mark, Ba!When
<1>6. Ba!ApproveAddition(r) /\ pc'[r] = "done" => beneficiary' = beneficiary
  BY <1>1, BankGoes DEF Ba!ApproveAddition, Ba!Mark, Ba!When
<1>7. ~Ba!BreakOff(r)
  BY <1>1 DEF Ba!BreakOff, Ba!Mark, Ba!When
<1> QED BY <1>2, <1>3, <1>4, <1>5, <1>6, <1>7

\* A user's row is his beneficiary through every step but the ones between the two.
LEMMA OwnPaid ==
    ASSUME BankTyped, NEW r \in Requests, BankAct(r), NEW u \in Pair, u = Ba!User(r), PaidFor(u), ~Excused(u)'
    PROVE  PaidFor(u)'
<1>1. /\ kind' = kind /\ account' = account /\ replica' = replica
      /\ \A q \in Requests \ {r} : pc'[q] = pc[q] /\ seen'[q] = seen[q] /\ answer'[q] = answer[q]
  BY BankActFrame
<1>2. /\ \A q \in Ba!Active(u)' : q # r => q \in Ba!Active(u)
      /\ r \in Ba!Active(u)' => pc'[r] \notin {"idle", "done"}
      /\ r \notin Ba!Active(u)' => pc'[r] \in {"idle", "done"}
  BY ActiveChange
<1>3. CASE Refused(r)
  <2>1. bank' = bank /\ beneficiary' = beneficiary
    BY <1>3 DEF Refused, Ba!AddInProgress, Ba!RemoveRefuse, Ba!Reject, Ba!stores
  <2>2. pc[r] = "idle" /\ pc'[r] = "done"
    BY <1>3, BankPlaces
  <2>3. Ba!Active(u)' = Ba!Active(u)
    BY <1>1, <2>2 DEF Ba!Active, Ba!User
  <2>4. \A q \in Ba!Active(u) : q # r
    BY <2>2 DEF Ba!Active
  <2> QED BY <1>1, <2>1, <2>3, <2>4 DEF PaidFor, OneAtATime, Synced, Between, Ba!Active
<1> SUFFICES ASSUME Starting(r) \/ BankGoing(r)
             PROVE  PaidFor(u)'
  BY <1>3 DEF BankAct
<1>4. /\ Starting(r) => Ba!Active(u) = {} /\ Synced(u)
      /\ BankGoing(r) => r \in Ba!Active(u) /\ Between(r, u) /\ \A q \in Ba!Active(u) : q = r
  BY Unmarked, BankPlaces DEF PaidFor, OneAtATime, Ba!Active
<1>5. Ba!Active(u)' \subseteq {r}
  BY <1>2, <1>4
<1>6. \A a, b \in bank[u] : a = b
  BY DEF PaidFor
<1>7. /\ bank[u] \subseteq Ba!Accounts /\ beneficiary \in [Pair -> Ba!Accounts \union {None}]
      /\ bank \in [Pair -> SUBSET Ba!Accounts] /\ account[r] # None /\ None \notin Ba!Accounts
  BY UserOf, BankAssumption DEF BankTyped, StoresTyped
<1> SUFFICES /\ \A a, b \in bank'[u] : a = b
             /\ pc'[r] = "done" => Synced(u)'
             /\ pc'[r] # "done" => Between(r, u)'
             /\ pc'[r] # "idle"
  BY <1>2, <1>5 DEF PaidFor, OneAtATime, Ba!Active
<1>8. CASE Starting(r)
  <2>1. bank' = bank /\ beneficiary' = beneficiary /\ pc'[r] \in {"setKey", "list", "addKyc", "removal"}
    BY <1>8, BankPlaces DEF Starting, Ba!AddPass, Ba!RemovePass, Ba!ApproveRead, Ba!stores
  <2> QED BY <1>4, <1>6, <1>8, <2>1 DEF Synced, Between
<1>9. CASE Ba!AddSetKey(r) \/ Ba!AddRefuse(r) \/ Ba!RemoveList(r) \/ Ba!RemoveOldRead(r) \/ Ba!RemoveOldUnset(r) \/ Ba!ApproveAddKyc(r)
  <2>1. bank' = bank /\ beneficiary' = beneficiary /\ pc'[r] \in {"check", "done", "gateway", "addition"}
    BY <1>9, BankPlaces DEF Ba!AddSetKey, Ba!AddRefuse, Ba!RemoveList, Ba!RemoveOldRead, Ba!RemoveOldUnset, Ba!ApproveAddKyc, Ba!stores
  <2>2. pc[r] \in {"setKey", "check", "list", "unsetOld", "addKyc"}
    BY <1>9 DEF Ba!AddSetKey, Ba!AddRefuse, Ba!RemoveList, Ba!RemoveOldRead, Ba!RemoveOldUnset, Ba!ApproveAddKyc, Ba!At
  <2>3. Synced(u)
    BY <1>4, <1>9, <2>2 DEF BankGoing, Between
  <2> QED BY <1>6, <2>1, <2>3 DEF Synced, Between
<1>10. CASE Ba!AddAccount(r)
  <2>1. pc'[r] = "done" /\ bank[u] = {} /\ beneficiary[u] = None
    BY <1>10, BankPlaces DEF Ba!AddAccount
  <2>2. (bank' = bank /\ beneficiary' = beneficiary)
        \/ (bank'[u] = {account[r]} /\ beneficiary'[u] = account[r])
    BY <1>7, <1>10 DEF Ba!AddAccount
  <2> QED BY <1>6, <1>7, <2>1, <2>2 DEF Synced
<1>11. CASE Ba!RemoveAtGateway(r) \/ Ba!ApproveRemoval(r)
  <2>1. pc[r] \in {"gateway", "removal"} /\ pc'[r] \in {"choose", "row", "replaced"} /\ bank' = bank
    BY <1>11, BankPlaces, Unmarked DEF Ba!RemoveAtGateway, Ba!ApproveRemoval, Ba!At
  <2>2. Synced(u)
    BY <1>4, <1>11, <2>1 DEF BankGoing, Between
  <2>3. \E step : Ba!GatewayRemoves(r, step)
    BY <1>11 DEF Ba!RemoveAtGateway, Ba!ApproveRemoval
  <2>4. \E reply \in Ba!Answers(u) : /\ answer'[r] = reply
                                  /\ beneficiary' = IF reply = "SUCCESS" THEN [beneficiary EXCEPT ![u] = None] ELSE beneficiary
    BY <2>3 DEF Ba!GatewayRemoves, BankTyped, BankRequestsTyped
  <2>5. answer'[r] # "SUCCESS" => beneficiary'[u] = beneficiary[u]
    BY <2>4
  <2>6. answer'[r] # "error" => beneficiary'[u] = None
    BY <1>7, <2>4 DEF Ba!Answers
  <2> QED BY <1>6, <2>1, <2>2, <2>5, <2>6 DEF Synced, Between
<1>12. CASE Ba!RemoveChoose(r) \/ Ba!RemoveUnset(r)
  <2>1. bank' = bank /\ beneficiary' = beneficiary /\ answer' = answer /\ pc[r] \in {"choose", "unset"}
    BY <1>12 DEF Ba!RemoveChoose, Ba!RemoveUnset, Ba!At, Ba!stores
  <2>2. detailsToDelete' # None \/ ~Ba!RemoveChoose(r)
    BY <1>7, Unmarked DEF Ba!RemoveChoose, Ba!Of
  <2>3. pc'[r] \in {"unset", "row"}
    BY <1>12, <2>2, BankPlaces
  <2> QED BY <1>4, <1>6, <1>12, <2>1, <2>3 DEF Synced, Between, BankGoing
<1>13. CASE Ba!RemoveRow(r)
  <2>1. beneficiary' = beneficiary /\ pc[r] = "row" /\ pc'[r] \in {"unsetOld", "done"}
        /\ bank'[u] = IF answer[r] = "error" THEN bank[u] ELSE {}
    BY <1>7, <1>13, BankPlaces DEF Ba!RemoveRow, Ba!At
  <2> QED BY <1>4, <1>6, <1>13, <2>1 DEF Synced, Between, BankGoing
<1>14. CASE Ba!ApproveReplace(r)
  <2>1. beneficiary' = beneficiary /\ pc[r] = "replaced" /\ pc'[r] = "addition"
        /\ bank'[u] = IF answer[r] = "SUCCESS" THEN {} ELSE bank[u]
    BY <1>7, <1>14, BankPlaces DEF Ba!ApproveReplace, Ba!At
  <2> QED BY <1>4, <1>6, <1>14, <2>1 DEF Synced, Between, BankGoing
<1>15. CASE Ba!ApproveAddition(r)
  <2>1. bank' = bank /\ pc[r] = "addition" /\ pc'[r] \in {"insert", "done"}
    BY <1>15, BankPlaces DEF Ba!ApproveAddition, Ba!At
  <2>2. Synced(u)
    BY <1>4, <1>15, <2>1 DEF BankGoing, Between
  <2>3. pc'[r] = "done" => beneficiary' = beneficiary
    BY <1>15, Unmarked
  <2>4. pc'[r] = "insert" => beneficiary'[u] = IF beneficiary[u] = None THEN account[r] ELSE beneficiary[u]
    BY <1>7, <1>15, BankGoes DEF Ba!ApproveAddition
  <2> QED BY <1>1, <1>6, <1>7, <2>1, <2>2, <2>3, <2>4 DEF Synced, Between
<1>16. CASE Ba!ApproveDenied(r) \/ Ba!ApproveInsert(r)
  <2>1. beneficiary' = beneficiary /\ pc[r] = "insert" /\ pc'[r] = "done" /\ replica[u] = bank[u]
    BY <1>16, BankPlaces, Unmarked DEF Ba!ApproveDenied, Ba!ApproveInsert, Ba!At, Ba!stores
  <2>2. beneficiary[u] # None /\ IF bank[u] = {} THEN beneficiary[u] = account[r] ELSE Synced(u)
    BY <1>4, <1>16, <2>1 DEF BankGoing, Between
  <2>3. CASE Ba!ApproveDenied(r)
    BY <1>6, <2>1, <2>2, <2>3 DEF Ba!ApproveDenied, Synced, Ba!stores
  <2>4. CASE Ba!ApproveInsert(r)
    <3>1. bank[u] = {} /\ bank'[u] = {account[r]}
      BY <1>7, <2>1, <2>4 DEF Ba!ApproveInsert
    <3> QED BY <2>1, <2>2, <3>1 DEF Synced
  <2> QED BY <1>16, <2>3, <2>4
<1>17. CASE Ba!BreakOff(r)
  BY <1>17, Unmarked
<1> QED BY <1>8, <1>9, <1>10, <1>11, <1>12, <1>13, <1>14, <1>15, <1>16, <1>17 DEF BankGoing

\* The table and the gateway agree on every user through every step.
LEMMA PaidStep ==
    ASSUME BankTyped, AllPaid, [Ba!Next]_(Ba!vars)
    PROVE  AllPaid'
<1> SUFFICES ASSUME NEW u \in Pair, ~Excused(u)' PROVE PaidFor(u)'
  BY DEF AllPaid
<1>1. ASSUME odd \subseteq odd' PROVE PaidFor(u)
  BY <1>1, OddGrows DEF AllPaid
<1>2. ASSUME UNCHANGED <<account, pc, answer, bank, beneficiary>>, odd \subseteq odd' PROVE PaidFor(u)'
  BY <1>1, <1>2 DEF PaidFor, OneAtATime, Ba!Active, Ba!User, Synced, Between
<1>3. CASE UNCHANGED Ba!vars
  BY <1>2, <1>3 DEF Ba!vars, Ba!stores
<1>4. ASSUME NEW r \in Requests, BankAct(r) PROVE PaidFor(u)'
  <2>1. PaidFor(u)
    BY <1>1, <1>4, BankActFrame
  <2>2. CASE u = Ba!User(r)
    BY <1>4, <2>1, <2>2, OwnPaid
  <2>3. CASE u # Ba!User(r)
    <3>1. Ba!Active(u)' = Ba!Active(u) /\ bank'[u] = bank[u] /\ beneficiary'[u] = beneficiary[u] /\ account' = account
      BY <1>4, <2>3, ActiveChange, BankActFrame
    <3>2. \A q \in Ba!Active(u) : q # r /\ q \in Requests
      BY <2>3 DEF Ba!Active
    <3>3. \A q \in Ba!Active(u) : pc'[q] = pc[q] /\ answer'[q] = answer[q]
      BY <1>4, <3>2, BankActFrame
    <3> QED BY <2>1, <3>1, <3>3 DEF PaidFor, OneAtATime, Synced, Between
  <2> QED BY <2>2, <2>3
<1>5. CASE Ba!Crash
  <2>1. \A q \in Requests : Ba!User(q) = u => Ba!Ended(q)
    <3> SUFFICES ASSUME NEW q \in Requests, Ba!User(q) = u, ~Ba!Ended(q) PROVE FALSE
      OBVIOUS
    <3>1. [what |-> "broken", of |-> u] \in odd'
      BY <1>5 DEF Ba!Crash
    <3> QED BY <3>1 DEF Excused, Ba!Went
  <2>2. Ba!Active(u) = {} /\ Ba!Active(u)' = {}
    BY <1>5, <2>1 DEF Ba!Crash, Ba!Active, Ba!Ended, Ba!User
  <2>3. PaidFor(u) /\ bank' = bank /\ beneficiary' = beneficiary
    BY <1>1, <1>5 DEF Ba!Crash, Ba!stores
  <2> QED BY <2>2, <2>3 DEF PaidFor, OneAtATime, Synced
<1>6. CASE Ba!Replicate \/ Ba!KeyExpire
  BY <1>2, <1>6 DEF Ba!Replicate, Ba!KeyExpire, Ba!stores
<1>7. CASE Ba!Withdraw
  <2>1. odd \subseteq odd'
    BY <1>7 DEF Ba!Withdraw, Ba!Mark
  <2> QED BY <1>2, <1>7, <2>1 DEF Ba!Withdraw, Ba!stores
<1> QED BY <1>3, <1>4, <1>5, <1>6, <1>7 DEF Ba!Next, BankAct, Starting, Refused, BankGoing

-------------------------------------------------------------------------------
(* Removed is unset *)

\* The account a user has lost is unset through every step but the ones between.
LEMMA OwnUnset ==
    ASSUME BankTyped, NEW r \in Requests, BankAct(r), NEW u \in Pair, u = Ba!User(r), PaidFor(u), UnsetFor(u),
           ~ExcusedToo(u)'
    PROVE  UnsetFor(u)'
<1>1. /\ kind' = kind /\ account' = account /\ replica' = replica
      /\ \A q \in Requests \ {r} : pc'[q] = pc[q] /\ seen'[q] = seen[q] /\ answer'[q] = answer[q]
  BY BankActFrame
<1>2. /\ \A q \in Ba!Active(u)' : q # r => q \in Ba!Active(u)
      /\ r \in Ba!Active(u)' => pc'[r] \notin {"idle", "done"}
      /\ r \notin Ba!Active(u)' => pc'[r] \in {"idle", "done"}
  BY ActiveChange
<1>3. ~Excused(u)'
  BY DEF ExcusedToo
<1>4. CASE Refused(r)
  <2>1. bank' = bank /\ equal' = equal /\ bankDeets' = bankDeets
    BY <1>4 DEF Refused, Ba!AddInProgress, Ba!RemoveRefuse, Ba!Reject, Ba!stores, Ba!globals
  <2>2. pc[r] = "idle" /\ pc'[r] = "done"
    BY <1>4, BankPlaces
  <2>3. Ba!Active(u)' = Ba!Active(u)
    BY <1>1, <2>2 DEF Ba!Active, Ba!User
  <2>4. \A q \in Ba!Active(u) : q # r
    BY <2>2 DEF Ba!Active
  <2>5. \A q \in Ba!Active(u) : pc'[q] = pc[q] /\ seen'[q] = seen[q] /\ answer'[q] = answer[q]
    BY <1>1, <2>4 DEF Ba!Active
  <2> QED BY <1>1, <2>1, <2>3, <2>5 DEF UnsetFor, Knows
<1> SUFFICES ASSUME Starting(r) \/ BankGoing(r)
             PROVE  UnsetFor(u)'
  BY <1>4 DEF BankAct
<1>5. /\ Starting(r) => Ba!Active(u) = {} /\ equal \intersect Ba!Of(u) \subseteq bank[u]
      /\ BankGoing(r) => r \in Ba!Active(u) /\ Knows(r, u) /\ Between(r, u) /\ \A q \in Ba!Active(u) : q = r
  BY <1>3, Unmarked, BankPlaces DEF PaidFor, UnsetFor, OneAtATime, Ba!Active
<1>6. Ba!Active(u)' \subseteq {r}
  BY <1>2, <1>5
<1>7. /\ bank \in [Pair -> SUBSET Ba!Accounts] /\ bank[u] \subseteq Ba!Of(u) /\ replica[u] \subseteq Ba!Of(u)
      /\ account[r] \in Ba!Of(u) /\ kind[r] \in Ba!Kinds /\ seen \in [Requests -> Ba!Accounts \union {None}]
      /\ \A a, b \in bank[u] : a = b
  BY UserOf DEF BankTyped, StoresTyped, BankRequestsTyped, PaidFor
<1> SUFFICES /\ pc'[r] = "done" => equal' \intersect Ba!Of(u) \subseteq bank'[u]
             /\ pc'[r] # "done" => Knows(r, u)'
             /\ pc'[r] # "idle"
  BY <1>2, <1>6 DEF UnsetFor, Ba!Active
<1>8. CASE Starting(r)
  <2>1. bank' = bank /\ equal' = equal /\ bankDeets' = bankDeets
    BY <1>8 DEF Starting, Ba!AddPass, Ba!RemovePass, Ba!ApproveRead, Ba!stores, Ba!globals
  <2>2. CASE Ba!AddPass(r) \/ Ba!RemovePass(r)
    <3>1. pc'[r] \in {"setKey", "list"}
      BY <2>2, BankPlaces
    <3> QED BY <1>5, <1>8, <2>1, <3>1 DEF Knows
  <2>3. CASE Ba!ApproveRead(r)
    <3>1. replica[u] = bank[u] /\ pc'[r] = IF replica[u] = {} THEN "addKyc" ELSE "removal"
      BY <1>3, <2>3, Unmarked, BankPlaces
    <3>2. replica[u] # {} => seen'[r] \in bank[u]
      BY <1>7, <2>3, <3>1 DEF Ba!ApproveRead
    <3> QED BY <1>5, <1>7, <1>8, <2>1, <3>1, <3>2 DEF Knows
  <2> QED BY <1>8, <2>2, <2>3 DEF Starting
<1>9. CASE Ba!AddSetKey(r) \/ Ba!AddRefuse(r) \/ Ba!ApproveAddKyc(r) \/ Ba!ApproveAddition(r) \/ Ba!ApproveDenied(r)
  <2>1. bank' = bank /\ equal' = equal /\ pc'[r] \in {"check", "done", "addition", "insert"}
    BY <1>9, BankPlaces DEF Ba!AddSetKey, Ba!AddRefuse, Ba!ApproveAddKyc, Ba!ApproveAddition, Ba!ApproveDenied, Ba!stores
  <2>2. pc[r] \in {"setKey", "check", "addKyc", "addition", "insert"}
    BY <1>9 DEF Ba!AddSetKey, Ba!AddRefuse, Ba!ApproveAddKyc, Ba!ApproveAddition, Ba!ApproveDenied, Ba!At
  <2>3. equal \intersect Ba!Of(u) \subseteq bank[u]
    BY <1>5, <1>9, <2>2 DEF BankGoing, Knows
  <2> QED BY <2>1, <2>3 DEF Knows
<1>10. CASE Ba!AddAccount(r)
  <2>1. pc[r] = "check" /\ pc'[r] = "done" /\ bank[u] = {}
    BY <1>10, BankPlaces DEF Ba!AddAccount, Ba!At
  <2>2. equal \intersect Ba!Of(u) = {}
    BY <1>5, <1>10, <2>1 DEF BankGoing, Knows
  <2>3. (bank' = bank /\ equal' = equal) \/ (bank'[u] = {account[r]} /\ equal' = equal \union {account[r]})
    BY <1>7, <1>10 DEF Ba!AddAccount
  <2> QED BY <2>1, <2>2, <2>3
<1>11. CASE Ba!RemoveList(r)
  <2>1. bank' = bank /\ equal' = equal /\ kind[r] = "remove" /\ pc[r] = "list" /\ pc'[r] = "gateway"
        /\ bankDeets' = replica[u] /\ replica[u] = bank[u]
    BY <1>3, <1>11, BankPlaces, Unmarked DEF Ba!RemoveList, Ba!At, Ba!stores
  <2>2. equal \intersect Ba!Of(u) \subseteq bank[u]
    BY <1>5, <1>11, <2>1 DEF BankGoing, Knows
  <2> QED BY <1>1, <2>1, <2>2 DEF Knows
<1>12. CASE Ba!RemoveOldRead(r)
  <2>1. bank' = bank /\ equal' = equal /\ kind[r] = "removeOld" /\ pc[r] = "list" /\ replica[u] = bank[u]
        /\ pc'[r] = IF replica[u] = {} THEN "done" ELSE "gateway"
    BY <1>3, <1>12, BankPlaces, Unmarked DEF Ba!RemoveOldRead, Ba!At, Ba!stores
  <2>2. equal \intersect Ba!Of(u) \subseteq bank[u]
    BY <1>5, <1>12, <2>1 DEF BankGoing, Knows
  <2>3. replica[u] # {} => seen'[r] \in bank[u]
    BY <1>7, <1>12, <2>1 DEF Ba!RemoveOldRead
  <2> QED BY <1>1, <1>7, <2>1, <2>2, <2>3 DEF Knows
<1>13. CASE Ba!RemoveAtGateway(r)
  <2>1. bank' = bank /\ equal' = equal /\ bankDeets' = bankDeets /\ seen' = seen /\ pc[r] = "gateway"
        /\ pc'[r] = (IF kind[r] = "remove" THEN "choose" ELSE "row") /\ kind[r] \in Ba!Removing
    BY <1>3, <1>13, BankPlaces, Unmarked DEF Ba!RemoveAtGateway, Ba!At, Ba!globals
  <2>2. answer'[r] # "none"
    BY <1>13 DEF Ba!RemoveAtGateway, Ba!GatewayRemoves, Ba!Answers, BankTyped, BankRequestsTyped
  <2> QED BY <1>1, <1>5, <1>13, <2>1, <2>2 DEF Knows, BankGoing, Ba!Removing
<1>14. CASE Ba!ApproveRemoval(r)
  <2>1. bank' = bank /\ equal' = equal /\ bankDeets' = bankDeets /\ seen' = seen /\ pc[r] = "removal"
        /\ pc'[r] = "replaced"
    BY <1>3, <1>14, BankPlaces, Unmarked DEF Ba!ApproveRemoval, Ba!At, Ba!globals
  <2> QED BY <1>1, <1>5, <1>14, <2>1 DEF Knows, BankGoing
<1>15. CASE Ba!RemoveChoose(r)
  <2>1. bank' = bank /\ equal' = equal /\ bankDeets' = bankDeets /\ pc[r] = "choose"
    BY <1>15 DEF Ba!RemoveChoose, Ba!At, Ba!stores
  <2>2. detailsToDelete' \in bankDeets \intersect Ba!Of(u) /\ seen'[r] = detailsToDelete'
    <3>1. bankDeets \intersect Ba!Of(u) # {}
      BY <1>3, <1>15, Unmarked
    <3>2. (\E a \in bankDeets \intersect Ba!Of(u) : detailsToDelete' = a) /\ seen' = [seen EXCEPT ![r] = detailsToDelete']
      BY <1>15, <3>1 DEF Ba!RemoveChoose
    <3> QED BY <1>7, <3>2
  <2>3. pc'[r] = "unset"
    BY <1>15, <2>2, BankPlaces, BankAssumption DEF Ba!Of
  <2>4. equal \intersect Ba!Of(u) \subseteq bank[u] /\ bankDeets \intersect Ba!Of(u) \subseteq bank[u]
    BY <1>5, <1>15, <2>1 DEF BankGoing, Knows
  <2>5. bank[u] \subseteq {seen'[r]}
    BY <1>7, <2>2, <2>4
  <2> QED BY <2>1, <2>2, <2>3, <2>4, <2>5 DEF Knows
<1>16. CASE Ba!RemoveUnset(r)
  <2>1. bank' = bank /\ kind[r] = "remove" /\ pc[r] = "unset" /\ pc'[r] = "row" /\ Ba!Unset(u, seen[r])
    BY <1>16, BankPlaces DEF Ba!RemoveUnset, Ba!At
  <2>2. equal \intersect Ba!Of(u) \subseteq bank[u] /\ bank[u] \subseteq {seen[r]} /\ seen[r] \in Ba!Of(u)
    BY <1>5, <1>16, <2>1 DEF BankGoing, Knows
  <2>3. equal' \intersect Ba!Of(u) = {}
    BY <2>1, <2>2 DEF Ba!Unset
  <2> QED BY <1>1, <2>1, <2>3 DEF Knows
<1>17. CASE Ba!RemoveRow(r)
  <2>1. /\ equal' = equal /\ seen' = seen /\ pc[r] = "row" /\ kind[r] \in Ba!Removing
        /\ pc'[r] = (IF kind[r] = "removeOld" /\ answer[r] = "SUCCESS" THEN "unsetOld" ELSE "done")
        /\ bank'[u] = IF answer[r] = "error" THEN bank[u] ELSE {}
    BY <1>7, <1>17, BankPlaces DEF Ba!RemoveRow, Ba!At
  <2>2. answer[r] # "404"
    <3>1. answer[r] = "404" => [what |-> "notFound", of |-> u] \in odd'
      BY <1>17 DEF Ba!RemoveRow, Ba!Mark, Ba!When
    <3> QED BY <3>1 DEF ExcusedToo, Ba!Went
  <2>3. /\ equal \intersect Ba!Of(u) \subseteq bank[u]
        /\ kind[r] = "remove" => equal \intersect Ba!Of(u) = {}
        /\ kind[r] = "removeOld" => seen[r] \in Ba!Of(u) /\ bank[u] \subseteq {seen[r]}
    BY <1>5, <1>17, <2>1 DEF BankGoing, Knows
  <2>4. answer[r] \in {"none", "SUCCESS", "error"} /\ (kind[r] = "removeOld" => answer[r] # "none")
    BY <1>5, <1>17, <2>1, <2>2 DEF BankGoing, Knows, BankTyped, BankRequestsTyped
  <2> QED BY <1>1, <2>1, <2>3, <2>4 DEF Knows, Ba!Removing
<1>18. CASE Ba!RemoveOldUnset(r)
  <2>1. bank' = bank /\ pc[r] = "unsetOld" /\ pc'[r] = "done" /\ Ba!Unset(u, seen[r])
    BY <1>18, BankPlaces DEF Ba!RemoveOldUnset, Ba!At
  <2>2. equal \intersect Ba!Of(u) \subseteq {seen[r]} /\ seen[r] \in Ba!Of(u)
    BY <1>5, <1>18, <2>1 DEF BankGoing, Knows
  <2> QED BY <2>1, <2>2 DEF Ba!Unset
<1>19. CASE Ba!ApproveReplace(r)
  <2>1. /\ pc[r] = "replaced" /\ pc'[r] = "addition"
        /\ IF answer[r] = "SUCCESS" THEN bank'[u] = {} /\ Ba!Unset(u, seen[r]) ELSE bank' = bank /\ equal' = equal
    BY <1>7, <1>19, BankPlaces DEF Ba!ApproveReplace, Ba!At
  <2>2. equal \intersect Ba!Of(u) \subseteq bank[u] /\ bank[u] \subseteq {seen[r]} /\ seen[r] \in Ba!Of(u)
    BY <1>5, <1>19, <2>1 DEF BankGoing, Knows
  <2> QED BY <2>1, <2>2 DEF Knows, Ba!Unset
<1>20. CASE Ba!ApproveInsert(r)
  <2>1. equal' = equal /\ pc[r] = "insert" /\ pc'[r] = "done" /\ bank'[u] = bank[u] \union {account[r]}
    BY <1>7, <1>20, BankPlaces DEF Ba!ApproveInsert, Ba!At
  <2>2. equal \intersect Ba!Of(u) \subseteq bank[u]
    BY <1>5, <1>20, <2>1 DEF BankGoing, Knows
  <2> QED BY <2>1, <2>2
<1>21. CASE Ba!BreakOff(r)
  BY <1>3, <1>21, Unmarked
<1> QED BY <1>8, <1>9, <1>10, <1>11, <1>12, <1>13, <1>14, <1>15, <1>16, <1>17, <1>18, <1>19, <1>20, <1>21
        DEF BankGoing

\* What a user lost is unset, for every user and through every step.
LEMMA UnsetStep ==
    ASSUME BankTyped, AllPaid, AllUnset, [Ba!Next]_(Ba!vars)
    PROVE  AllUnset'
<1> SUFFICES ASSUME NEW u \in Pair, ~ExcusedToo(u)' PROVE UnsetFor(u)'
  BY DEF AllUnset
<1>1. ASSUME odd \subseteq odd' PROVE UnsetFor(u) /\ PaidFor(u)
  BY <1>1, OddGrows DEF AllUnset, AllPaid, ExcusedToo
<1>2. ASSUME UNCHANGED <<kind, account, pc, seen, answer, bankDeets, bank, equal>>, odd \subseteq odd' PROVE UnsetFor(u)'
  BY <1>1, <1>2 DEF UnsetFor, Ba!Active, Ba!User, Knows
<1>3. CASE UNCHANGED Ba!vars
  BY <1>2, <1>3 DEF Ba!vars, Ba!stores, Ba!globals
<1>4. ASSUME NEW r \in Requests, BankAct(r) PROVE UnsetFor(u)'
  <2>1. UnsetFor(u) /\ PaidFor(u)
    BY <1>1, <1>4, BankActFrame
  <2>2. CASE u = Ba!User(r)
    BY <1>4, <2>1, <2>2, OwnUnset
  <2>3. CASE u # Ba!User(r)
    <3>1. /\ Ba!Active(u)' = Ba!Active(u) /\ bank'[u] = bank[u] /\ kind' = kind
          /\ equal' \intersect Ba!Of(u) = equal \intersect Ba!Of(u)
          /\ bankDeets' \intersect Ba!Of(u) \subseteq bankDeets \intersect Ba!Of(u)
      BY <1>4, <2>3, ActiveChange, BankActFrame
    <3>2. \A q \in Ba!Active(u) : q # r /\ q \in Requests
      BY <2>3 DEF Ba!Active
    <3>3. \A q \in Ba!Active(u) : pc'[q] = pc[q] /\ seen'[q] = seen[q] /\ answer'[q] = answer[q]
      BY <1>4, <3>2, BankActFrame
    <3>4. Ba!Active(u) = {} => equal \intersect Ba!Of(u) \subseteq bank[u]
      BY <2>1 DEF UnsetFor
    <3>5. ASSUME NEW q \in Ba!Active(u) PROVE Knows(q, u)'
      <4>1. Knows(q, u)
        BY <2>1, <3>5 DEF UnsetFor
      <4> QED BY <3>1, <3>3, <4>1 DEF Knows
    <3> QED BY <3>1, <3>4, <3>5 DEF UnsetFor
  <2> QED BY <2>2, <2>3
<1>5. CASE Ba!Crash
  <2>1. \A q \in Requests : Ba!User(q) = u => Ba!Ended(q)
    <3> SUFFICES ASSUME NEW q \in Requests, Ba!User(q) = u, ~Ba!Ended(q) PROVE FALSE
      OBVIOUS
    <3>1. [what |-> "broken", of |-> u] \in odd'
      BY <1>5 DEF Ba!Crash
    <3> QED BY <3>1 DEF ExcusedToo, Excused, Ba!Went
  <2>2. Ba!Active(u) = {} /\ Ba!Active(u)' = {}
    BY <1>5, <2>1 DEF Ba!Crash, Ba!Active, Ba!Ended, Ba!User
  <2>3. UnsetFor(u) /\ bank' = bank /\ equal' = equal
    BY <1>1, <1>5 DEF Ba!Crash, Ba!stores
  <2> QED BY <2>2, <2>3 DEF UnsetFor
<1>6. CASE Ba!Replicate \/ Ba!KeyExpire
  BY <1>2, <1>6 DEF Ba!Replicate, Ba!KeyExpire, Ba!stores, Ba!globals
<1>7. CASE Ba!Withdraw
  <2>1. odd \subseteq odd'
    BY <1>7 DEF Ba!Withdraw, Ba!Mark
  <2> QED BY <1>2, <1>7, <2>1 DEF Ba!Withdraw, Ba!stores, Ba!globals
<1> QED BY <1>3, <1>4, <1>5, <1>6, <1>7 DEF Ba!Next, BankAct, Starting, Refused, BankGoing

-------------------------------------------------------------------------------
(* Theorems *)

BankInv == BankTyped /\ AllPaid /\ AllUnset

\* The invariant holds.
LEMMA BankInvariant == Ba!Spec => []BankInv
<1>1. Ba!Init => BankInv
  <2> SUFFICES ASSUME Ba!Init PROVE BankInv
    OBVIOUS
  <2>1. \A u \in Pair : bank[u] = {} \/ bank[u] = {<<u, 1>>}
    <3> SUFFICES ASSUME NEW u \in Pair PROVE bank[u] = {} \/ bank[u] = {<<u, 1>>}
      OBVIOUS
    <3>1. bank[u] \in {{}} \union {{a} : a \in Pair \X {1}} /\ bank[u] \subseteq Ba!Of(u)
      BY DEF Ba!Init
    <3>2. \A a \in Pair \X {1} : a \in Ba!Of(u) => a = <<u, 1>>
      BY DEF Ba!Of
    <3> QED BY <3>1, <3>2
  <2>2. /\ bank \in [Pair -> SUBSET Ba!Accounts] /\ equal \subseteq Ba!Accounts
        /\ \A u \in Pair : bank[u] \subseteq Ba!Of(u) /\ equal \intersect Ba!Of(u) \subseteq bank[u]
    <3>1. bank \in [Pair -> SUBSET Ba!Accounts] /\ \A u \in Pair : bank[u] \subseteq Ba!Of(u)
      BY DEF Ba!Init, Ba!Accounts
    <3>2. ASSUME NEW u \in Pair, NEW a \in equal, a \in Ba!Of(u) PROVE a \in bank[u]
      <4>1. PICK v \in Pair : a \in bank[v]
        BY <3>2 DEF Ba!Init
      <4>2. v = u
        BY <3>1, <3>2, <4>1 DEF Ba!Of
      <4> QED BY <4>1, <4>2
    <3>3. equal \subseteq Ba!Accounts
      BY <3>1 DEF Ba!Init
    <3> QED BY <3>1, <3>2, <3>3
  <2>3. BankTyped
    <3>1. BankRequestsTyped
      BY DEF Ba!Init, BankRequestsTyped, BankSteps
    <3>2. StoresTyped
      <4>1. beneficiary \in [Pair -> Ba!Accounts \union {None}]
        BY DEF Ba!Init, Ba!Accounts
      <4> QED BY <2>2, <4>1 DEF Ba!Init, StoresTyped
    <3>3. OthersTyped
      BY DEF Ba!Init, OthersTyped
    <3> QED BY <3>1, <3>2, <3>3 DEF BankTyped
  <2>4. \A u \in Pair : Ba!Active(u) = {}
    BY DEF Ba!Init, Ba!Active
  <2>5. \A u \in Pair : Synced(u)
    <3>1. \A u \in Pair : <<u, 1>> # None
      BY BankAssumption DEF Ba!Accounts
    <3> QED BY <2>1, <3>1 DEF Ba!Init, Synced
  <2>6. AllPaid
    BY <2>1, <2>4, <2>5 DEF AllPaid, PaidFor, OneAtATime
  <2>7. AllUnset
    BY <2>2, <2>4 DEF AllUnset, UnsetFor
  <2> QED BY <2>3, <2>6, <2>7 DEF BankInv
<1>2. BankInv /\ [Ba!Next]_(Ba!vars) => BankInv'
  BY BankTypedStep, PaidStep, UnsetStep DEF BankInv
<1> QED BY <1>1, <1>2, PTL DEF Ba!Spec

\* Every variable of the bank details has its type.
LEMMA BankTypes == Ba!Spec => []Ba!TypeOK
<1>1. BankInv => Ba!TypeOK
  BY DEF BankInv, BankTyped, BankRequestsTyped, StoresTyped, OthersTyped, Ba!TypeOK
<1> QED BY <1>1, BankInvariant, PTL

\* For any users and requests: the account a user sees is the one that is paid, and an
\* account removed is not marked as the user's any more, but for the named exceptions.
LEMMA DetailsKept == Ba!Spec => []Ba!DetailsAgree
<1>1. BankInv => Ba!DetailsAgree
  <2> SUFFICES ASSUME BankInv PROVE Ba!DetailsAgree
    OBVIOUS
  <2>1. ASSUME NEW u \in Pair, Ba!Active(u) = {}, bank[u] # {}, ~Excused(u) PROVE bank[u] = {beneficiary[u]}
    <3>1. Synced(u)
      BY <2>1 DEF BankInv, AllPaid, PaidFor
    <3> QED BY <2>1, <3>1 DEF Synced
  <2>2. ASSUME NEW u \in Pair, Ba!Active(u) = {}, bank[u] = {}, ~ExcusedToo(u) PROVE equal \intersect Ba!Of(u) = {}
    <3>1. equal \intersect Ba!Of(u) \subseteq bank[u]
      BY <2>2 DEF BankInv, AllUnset, UnsetFor
    <3> QED BY <2>2, <3>1
  <2>3. \A u \in Pair : Ba!Went(u, {"stale", "broken", "lost", "overlap", "crossed", "notFound"}) <=> ExcusedToo(u)
    BY DEF ExcusedToo, Excused, Ba!Went
  <2>4. Ba!PaidIsShown
    BY <2>1 DEF Ba!PaidIsShown, Excused
  <2>5. Ba!RemovedIsUnset
    BY <2>2, <2>3 DEF Ba!RemovedIsUnset
  <2> QED BY <2>4, <2>5 DEF Ba!DetailsAgree
<1> QED BY <1>1, BankInvariant, PTL

-------------------------------------------------------------------------------
(* MATCH MAKING.  The register, the memory and the tasks' copies of it agree *)
(* on what was invested, or the difference is on record (InStep).            *)

(* The invariant *)

MakingPlaces == {"free", "list", "process", "send", "forget", "forgotten"}
Registers == [Events -> Ma!Entry \union {None}]
Tasks == [at : MakingPlaces, left : Nat, invested : Nat, copy : Registers \union {None}]
Asked == [kind : Ma!Kinds, event : Events, at : {"idle", "asked", "reread", "done"},
          copy : Registers \union {None}]

RegistersTyped == stored \in Registers /\ memory \in Registers /\ cron \in Registers \union {None}
TasksTyped == task \in [Ma!Slots -> Tasks]
MakingRequestsTyped == request \in [Requests -> Asked]
NumbersTyped ==
    /\ version \in {"v1", "v2"} /\ running \subseteq Events
    /\ spent \in [Events -> 0 .. MaxSpent] /\ ceiling \in [Events -> Nat] /\ lost \in BOOLEAN
    /\ uncertain \subseteq Events /\ released \subseteq Events /\ left \subseteq Events
MakingTyped == RegistersTyped /\ TasksTyped /\ MakingRequestsTyped /\ NumbersTyped

\* Whoever is to write the register has a copy, and it has the event or not as the
\* request needs it.
CopiesFit ==
    /\ \A s \in Ma!Slots : task[s].at = "forgotten" => task[s].copy \in Registers
    /\ \A r \in Requests :
          /\ request[r].at \in {"asked", "reread"} => request[r].copy \in Registers
          /\ request[r].at = "asked" =>
                (Ma!Has(request[r].copy, request[r].event) <=> request[r].kind # "add")

\* An event that was never released has one task at most, and is in runningEvents as
\* long as it has one.
OneTask ==
    \A e \in Events : e \notin released =>
        /\ \A s, t \in Ma!Busy(e) : s = t
        /\ Ma!Busy(e) # {} => e \in running

\* While no copy was lost the process's copy is behind in nothing but new events,
\* limits and pauses.
InStepFor(e) ==
    /\ Ma!Has(stored, e) => stored[e].limit <= ceiling[e]
    /\ Ma!Has(memory, e) =>
          /\ Ma!Has(stored, e) /\ memory[e].invested = stored[e].invested
          /\ memory[e].limit <= ceiling[e]

InStep == version = "v1" /\ ~lost => \A e \in Events : InStepFor(e)

\* What was spent for an event is what its entry says, and fits the limit; an order
\* that was chosen is the next one and fits too.
Accounted(e) ==
    /\ Ma!Busy(e) # {} => Ma!Has(memory, e)
    /\ spent[e] <= ceiling[e]
    /\ Ma!Has(stored, e) => spent[e] <= stored[e].invested
    /\ \A s \in Ma!Busy(e) : task[s].at = "send" =>
          task[s].invested = stored[e].invested + 1 /\ task[s].invested <= ceiling[e]

AllAccounted ==
    version = "v1" /\ ~lost => \A e \in Events : e \notin uncertain \union released => Accounted(e)

-------------------------------------------------------------------------------
(* Entries, registers, tasks and requests *)

\* The number of members is that of the library.
LEMMA MakingCardinality == \A X : Ma!Cardinality(X) = Cardinality(X)
BY DEF Ma!Cardinality, Cardinality

LEMMA EntryFields ==
    ASSUME NEW x \in Ma!Entry
    PROVE  x.on \in BOOLEAN /\ x.limit \in Nat /\ x.limit \in Limits /\ x.invested \in Nat /\ x # None
BY MatchMakingAssumption DEF Ma!Entry

\* What the handlers change in an entry.
LEMMA EntryChanges ==
    ASSUME NEW x \in Ma!Entry
    PROVE  /\ \A n \in Nat :
                 /\ [x EXCEPT !.invested = n] \in Ma!Entry
                 /\ [x EXCEPT !.invested = n].invested = n /\ [x EXCEPT !.invested = n].limit = x.limit
           /\ \A b \in BOOLEAN :
                 /\ [x EXCEPT !.on = b] \in Ma!Entry
                 /\ [x EXCEPT !.on = b].invested = x.invested /\ [x EXCEPT !.on = b].limit = x.limit
           /\ \A b \in BOOLEAN, l \in Limits :
                 /\ [x EXCEPT !.on = b, !.limit = l] \in Ma!Entry
                 /\ [x EXCEPT !.on = b, !.limit = l].invested = x.invested
                 /\ [x EXCEPT !.on = b, !.limit = l].limit = l
BY DEF Ma!Entry

LEMMA EntryInvested ==
    ASSUME NEW x \in Ma!Entry, NEW n \in Nat
    PROVE  [x EXCEPT !.invested = n] \in Ma!Entry /\ [x EXCEPT !.invested = n].invested = n
BY DEF Ma!Entry

LEMMA EntryOf ==
    ASSUME NEW reg \in Registers, NEW e \in Events, Ma!Has(reg, e)
    PROVE  reg[e] \in Ma!Entry
BY DEF Registers, Ma!Has

LEMMA PutIs ==
    ASSUME NEW reg \in Registers, NEW e \in Events, NEW x \in Ma!Entry \union {None}
    PROVE  /\ Ma!Put(reg, e, x) \in Registers /\ Ma!Put(reg, e, x)[e] = x
           /\ \A f \in Events : f # e => Ma!Put(reg, e, x)[f] = reg[f]
BY DEF Registers, Ma!Put

LEMMA SlotEvent == \A s \in Ma!Slots : s[1] \in Events
BY DEF Ma!Slots

\* A task's step leaves the other tasks alone.
LEMMA TaskChange ==
    ASSUME MakingTyped, NEW s \in Ma!Slots, Ma!Task(s)
    PROVE  /\ task' \in [Ma!Slots -> Tasks]
           /\ \A t \in Ma!Slots : t # s => task'[t] = task[t]
<1>1. ASSUME NEW x \in Tasks, task' = [task EXCEPT ![s] = x]
      PROVE  /\ task' \in [Ma!Slots -> Tasks]
             /\ \A t \in Ma!Slots : t # s => task'[t] = task[t]
  BY <1>1 DEF MakingTyped, TasksTyped
<1>2. /\ task \in [Ma!Slots -> Tasks] /\ task[s] \in Tasks
      /\ task[s].at \in MakingPlaces /\ task[s].left \in Nat /\ task[s].invested \in Nat
      /\ task[s].copy \in Registers \union {None}
  BY DEF MakingTyped, TasksTyped, Tasks
<1>3. ASSUME Ma!End(s) PROVE \E x \in Tasks : task' = [task EXCEPT ![s] = x]
  <2>1. Ma!Free \in Tasks
    BY DEF Ma!Free, Tasks, MakingPlaces
  <2> QED BY <1>3, <2>1 DEF Ma!End
<1>4. ASSUME NEW p \in MakingPlaces, NEW n \in Nat, NEW i \in Nat, NEW c \in Registers \union {None}
      PROVE  [at |-> p, left |-> n, invested |-> i, copy |-> c] \in Tasks
  BY DEF Tasks
<1>5. ASSUME NEW p \in MakingPlaces, NEW n \in Nat, NEW c \in Registers \union {None}
      PROVE  /\ [task[s] EXCEPT !.at = p] \in Tasks
             /\ [task[s] EXCEPT !.left = n] \in Tasks
             /\ [task[s] EXCEPT !.at = p, !.left = n] \in Tasks
             /\ [task[s] EXCEPT !.at = p, !.copy = c] \in Tasks
  BY <1>2 DEF Tasks
<1>6. ASSUME NEW p \in MakingPlaces, Ma!Move(s, p) PROVE \E x \in Tasks : task' = [task EXCEPT ![s] = x]
  <2>1. task' = [task EXCEPT ![s] = [task[s] EXCEPT !.at = p]]
    BY <1>2, <1>6 DEF Ma!Move
  <2> QED BY <1>2, <1>5, <2>1
<1>7. \E x \in Tasks : task' = [task EXCEPT ![s] = x]
  <2>1. CASE Ma!List(s)
    <3>1. PICK n \in 0 .. MaxOrders :
            task' = [task EXCEPT ![s].at = IF version = "v1" THEN "process" ELSE "send", ![s].left = n]
      BY <2>1 DEF Ma!List
    <3>2. n \in Nat /\ "process" \in MakingPlaces /\ "send" \in MakingPlaces
      BY <3>1, MatchMakingAssumption DEF MakingPlaces
    <3>3. PICK p \in {"process", "send"} : task' = [task EXCEPT ![s].at = p, ![s].left = n]
      BY <3>1
    <3>4. task' = [task EXCEPT ![s] = [task[s] EXCEPT !.at = p, !.left = n]]
      BY <1>2, <3>3
    <3>5. [task[s] EXCEPT !.at = p, !.left = n] \in Tasks
      BY <1>2, <1>5, <3>2, <3>3
    <3> QED BY <3>4, <3>5
  <2>2. CASE Ma!Choose(s)
    <3>1. memory[s[1]].invested + 1 \in Nat
      BY <2>2, EntryOf, EntryFields, SlotEvent DEF Ma!Choose, MakingTyped, RegistersTyped
    <3>2. task[s].left > 0 /\ task[s].left - 1 \in Nat
      BY <1>2, <2>2 DEF Ma!Choose
    <3>3. task' = [task EXCEPT ![s] = [at |-> "send", left |-> task[s].left - 1,
                                       invested |-> memory[s[1]].invested + 1, copy |-> None]]
      BY <1>2, <2>2 DEF Ma!Choose
    <3>4. [at |-> "send", left |-> task[s].left - 1, invested |-> memory[s[1]].invested + 1, copy |-> None] \in Tasks
      BY <1>4, <3>1, <3>2 DEF MakingPlaces
    <3> QED BY <3>3, <3>4
  <2>3. CASE Ma!SendV2(s)
    <3>1. CASE task[s].left = 0
      BY <1>3, <2>3, <3>1 DEF Ma!SendV2, Ma!Close
    <3>2. CASE task[s].left # 0
      <4>1. task[s].left - 1 \in Nat /\ task' = [task EXCEPT ![s].left = task[s].left - 1]
        BY <1>2, <2>3, <3>2 DEF Ma!SendV2
      <4>2. task' = [task EXCEPT ![s] = [task[s] EXCEPT !.left = task[s].left - 1]]
        BY <1>2, <4>1
      <4>3. [task[s] EXCEPT !.left = task[s].left - 1] \in Tasks
        BY <1>2, <1>5, <4>1
      <4> QED BY <4>2, <4>3
    <3> QED BY <3>1, <3>2
  <2>4. CASE Ma!ForgetReads(s)
    <3>1. task' = [task EXCEPT ![s].at = "forgotten", ![s].copy = stored]
      BY <2>4 DEF Ma!ForgetReads
    <3>2. stored \in Registers \union {None} /\ "forgotten" \in MakingPlaces
      BY DEF MakingTyped, RegistersTyped, MakingPlaces
    <3>3. task' = [task EXCEPT ![s] = [task[s] EXCEPT !.at = "forgotten", !.copy = stored]]
      BY <1>2, <3>1
    <3>4. [task[s] EXCEPT !.at = "forgotten", !.copy = stored] \in Tasks
      BY <1>2, <1>5, <3>2
    <3> QED BY <3>3, <3>4
  <2>5. CASE Ma!ListFails(s) \/ Ma!NothingToDo(s) \/ Ma!Paused(s) \/ Ma!Forget(s)
    BY <1>3, <2>5 DEF Ma!ListFails, Ma!NothingToDo, Ma!Paused, Ma!Forget, Ma!Close, Ma!Abandon
  <2>6. CASE Ma!NotDue(s) \/ Ma!MarketClosed(s)
    <3>1. Ma!Move(s, "forget")
      BY <2>6 DEF Ma!NotDue, Ma!MarketClosed
    <3> QED BY <1>6, <3>1 DEF MakingPlaces
  <2>7. CASE Ma!SendV1(s) \/ Ma!SendFails(s) \/ Ma!Pause(s)
    <3>1. Ma!Move(s, "process") \/ Ma!End(s)
      BY <2>7 DEF Ma!SendV1, Ma!SendFails, Ma!Pause, Ma!Close, Ma!Abandon
    <3> QED BY <1>3, <1>6, <3>1 DEF MakingPlaces
  <2> QED BY <2>1, <2>2, <2>3, <2>4, <2>5, <2>6, <2>7 DEF Ma!Task
<1> QED BY <1>1, <1>7

\* Where a step leaves its task.
LEMMA TaskPlace ==
    ASSUME MakingTyped, NEW s \in Ma!Slots
    PROVE  /\ Ma!Task(s) => task[s].at # "free"
           /\ Ma!List(s) => task'[s].at = IF version = "v1" THEN "process" ELSE "send"
           /\ Ma!ListFails(s) \/ Ma!NothingToDo(s) \/ Ma!Paused(s) \/ Ma!Forget(s) => task'[s].at = "free"
           /\ Ma!NotDue(s) \/ Ma!MarketClosed(s) => task'[s].at = "forget"
           /\ Ma!Choose(s) => task'[s].at = "send" /\ task'[s].invested = memory[s[1]].invested + 1
           /\ Ma!SendV1(s) => task'[s].at = IF Ma!Has(memory, s[1]) THEN "process" ELSE "free"
           /\ Ma!SendV2(s) => task'[s].at \in {"send", "free"}
           /\ Ma!SendFails(s) => task'[s].at = IF version = "v1" THEN "process" ELSE "free"
           /\ Ma!Pause(s) => task'[s].at \in {"process", "free"}
           /\ Ma!ForgetReads(s) => task'[s].at = "forgotten" /\ task'[s].copy = stored
<1>1. task \in [Ma!Slots -> Tasks] /\ task[s] \in Tasks
  BY DEF MakingTyped, TasksTyped
<1>2. ASSUME NEW p, Ma!Move(s, p) PROVE task'[s].at = p
  BY <1>1, <1>2 DEF Ma!Move, Tasks
<1>3. ASSUME Ma!End(s) PROVE task'[s].at = "free"
  BY <1>1, <1>3 DEF Ma!End, Ma!Free
<1>4. Ma!Task(s) => task[s].at # "free"
  BY DEF Ma!Task, Ma!List, Ma!ListFails, Ma!NotDue, Ma!Choose, Ma!NothingToDo, Ma!Paused, Ma!SendV1, Ma!SendV2, Ma!SendFails,
         Ma!MarketClosed, Ma!Pause, Ma!ForgetReads, Ma!Forget, Ma!At
<1>5. Ma!List(s) => task'[s].at = IF version = "v1" THEN "process" ELSE "send"
  BY <1>1 DEF Ma!List, Tasks
<1>6. Ma!ListFails(s) \/ Ma!NothingToDo(s) \/ Ma!Paused(s) \/ Ma!Forget(s) => task'[s].at = "free"
  BY <1>3 DEF Ma!ListFails, Ma!NothingToDo, Ma!Paused, Ma!Forget, Ma!Close, Ma!Abandon
<1>7. Ma!NotDue(s) \/ Ma!MarketClosed(s) => task'[s].at = "forget"
  BY <1>2 DEF Ma!NotDue, Ma!MarketClosed
<1>8. Ma!Choose(s) => task'[s].at = "send" /\ task'[s].invested = memory[s[1]].invested + 1
  BY <1>1 DEF Ma!Choose
<1>9. Ma!SendV1(s) => task'[s].at = IF Ma!Has(memory, s[1]) THEN "process" ELSE "free"
  BY <1>2, <1>3 DEF Ma!SendV1, Ma!Abandon
<1>10. Ma!SendV2(s) => task'[s].at \in {"send", "free"}
  <2>1. ASSUME NEW n, task' = [task EXCEPT ![s].left = n] PROVE task'[s].at = task[s].at
    BY <1>1, <2>1 DEF Tasks
  <2> QED BY <1>3, <2>1 DEF Ma!SendV2, Ma!Close, Ma!At
<1>11. Ma!SendFails(s) => task'[s].at = IF version = "v1" THEN "process" ELSE "free"
  BY <1>2, <1>3 DEF Ma!SendFails, Ma!Close
<1>12. Ma!Pause(s) => task'[s].at \in {"process", "free"}
  BY <1>2, <1>3 DEF Ma!Pause, Ma!Abandon, Ma!Close
<1>13. Ma!ForgetReads(s) => task'[s].at = "forgotten" /\ task'[s].copy = stored
  BY <1>1 DEF Ma!ForgetReads, Tasks
<1> QED BY <1>4, <1>5, <1>6, <1>7, <1>8, <1>9, <1>10, <1>11, <1>12, <1>13

\* A request of the dashboard leaves the others alone, and keeps its kind and event.
LEMMA RequestChange ==
    ASSUME MakingTyped, NEW r \in Requests,
           Ma!Ask(r) \/ Ma!AddV1(r) \/ Ma!AddV2(r) \/ Ma!UpdateV1(r) \/ Ma!UpdateV2(r) \/ Ma!DeleteReads(r) \/ Ma!Delete(r)
    PROVE  /\ request' \in [Requests -> Asked]
           /\ \A q \in Requests : q # r => request'[q] = request[q]
           /\ request'[r].kind = request[r].kind /\ request'[r].event = request[r].event
           /\ request'[r].at = "done" \/ request'[r].copy = stored
           /\ request'[r].at = "asked" => (Ma!Has(stored, request[r].event) <=> request[r].kind # "add")
<1>1. /\ request \in [Requests -> Asked] /\ request[r] \in Asked /\ stored \in Registers
      /\ request[r].kind \in Ma!Kinds /\ request[r].event \in Events
  BY DEF MakingTyped, MakingRequestsTyped, RegistersTyped, Asked
<1>2. ASSUME NEW a \in {"asked", "reread", "done"}, NEW c \in Registers \union {None},
             request' = [request EXCEPT ![r].at = a, ![r].copy = c]
      PROVE  /\ request' \in [Requests -> Asked]
             /\ \A q \in Requests : q # r => request'[q] = request[q]
             /\ request'[r].kind = request[r].kind /\ request'[r].event = request[r].event
             /\ request'[r].at = a /\ request'[r].copy = c
  <2>1. [request[r] EXCEPT !.at = a, !.copy = c] \in Asked
    BY <1>1, <1>2 DEF Asked
  <2>2. request' = [request EXCEPT ![r] = [request[r] EXCEPT !.at = a, !.copy = c]]
    BY <1>1, <1>2 DEF Asked
  <2> QED BY <1>1, <2>1, <2>2 DEF Asked
<1>3. CASE Ma!Ask(r)
  <2>1. request' = [request EXCEPT ![r].at = IF Ma!Has(stored, request[r].event) = (request[r].kind = "add")
                                             THEN "done" ELSE "asked", ![r].copy = stored]
    BY <1>3 DEF Ma!Ask
  <2>2. CASE Ma!Has(stored, request[r].event) = (request[r].kind = "add")
    BY <1>1, <1>2, <2>1, <2>2
  <2>3. CASE Ma!Has(stored, request[r].event) # (request[r].kind = "add")
    <3>1. Ma!Has(stored, request[r].event) <=> request[r].kind # "add"
      BY <2>3 DEF Ma!Has
    <3> QED BY <1>1, <1>2, <2>1, <2>3, <3>1
  <2> QED BY <2>2, <2>3
<1>4. CASE Ma!DeleteReads(r)
  <2>1. request' = [request EXCEPT ![r].at = "reread", ![r].copy = stored]
    BY <1>4 DEF Ma!DeleteReads
  <2> QED BY <1>1, <1>2, <2>1
<1>5. CASE Ma!AddV1(r) \/ Ma!AddV2(r) \/ Ma!UpdateV1(r) \/ Ma!UpdateV2(r) \/ Ma!Delete(r)
  <2>1. request' = [request EXCEPT ![r].at = "done", ![r].copy = None]
    BY <1>5 DEF Ma!AddV1, Ma!AddV2, Ma!AddEntry, Ma!UpdateV1, Ma!UpdateV2, Ma!UpdateEntry, Ma!Delete
  <2> QED BY <1>1, <1>2, <2>1
<1> QED BY <1>3, <1>4, <1>5

\* The tasks keep their types.
LEMMA TasksStep ==
    ASSUME MakingTyped, [Ma!Next]_(Ma!vars)
    PROVE  TasksTyped'
<1>1. CASE UNCHANGED Ma!vars
  BY <1>1 DEF Ma!vars, MakingTyped, TasksTyped
<1>2. ASSUME NEW s \in Ma!Slots, Ma!Task(s) PROVE TasksTyped'
  BY <1>2, TaskChange DEF TasksTyped
<1>3. ASSUME NEW r \in Requests, Ma!Ask(r) \/ Ma!AddV1(r) \/ Ma!AddV2(r) \/ Ma!UpdateV1(r) \/ Ma!UpdateV2(r)
                                 \/ Ma!DeleteReads(r) \/ Ma!Delete(r)
      PROVE  TasksTyped'
  BY <1>3 DEF Ma!Ask, Ma!AddV1, Ma!AddV2, Ma!AddEntry, Ma!UpdateV1, Ma!UpdateV2, Ma!UpdateEntry, Ma!DeleteReads, Ma!Delete,
              MakingTyped, TasksTyped
<1>4. CASE Ma!RunReads
  BY <1>4 DEF Ma!RunReads, MakingTyped, TasksTyped
<1>5. Ma!Free \in Tasks /\ [Ma!Free EXCEPT !.at = "list"] \in Tasks
  BY DEF Ma!Free, Tasks, MakingPlaces
<1>6. CASE Ma!RunStarts
  BY <1>5, <1>6 DEF Ma!RunStarts, MakingTyped, TasksTyped
<1>7. CASE Ma!Crash
  BY <1>5, <1>7 DEF Ma!Crash, TasksTyped
<1> QED BY <1>1, <1>2, <1>3, <1>4, <1>6, <1>7 DEF Ma!Next, Ma!Task

\* The requests keep their types.
LEMMA MakingRequestsStep ==
    ASSUME MakingTyped, [Ma!Next]_(Ma!vars)
    PROVE  MakingRequestsTyped'
<1>1. CASE UNCHANGED Ma!vars
  BY <1>1 DEF Ma!vars, MakingTyped, MakingRequestsTyped
<1>2. ASSUME NEW s \in Ma!Slots, Ma!Task(s) PROVE MakingRequestsTyped'
  BY <1>2 DEF Ma!Task, Ma!List, Ma!ListFails, Ma!NotDue, Ma!Choose, Ma!NothingToDo, Ma!Paused, Ma!SendV1, Ma!SendV2, Ma!SendFails,
              Ma!MarketClosed, Ma!Pause, Ma!ForgetReads, Ma!Forget, MakingTyped, MakingRequestsTyped
<1>3. ASSUME NEW r \in Requests, Ma!Ask(r) \/ Ma!AddV1(r) \/ Ma!AddV2(r) \/ Ma!UpdateV1(r) \/ Ma!UpdateV2(r)
                                 \/ Ma!DeleteReads(r) \/ Ma!Delete(r)
      PROVE  MakingRequestsTyped'
  BY <1>3, RequestChange DEF MakingRequestsTyped
<1>4. CASE Ma!RunReads \/ Ma!RunStarts
  BY <1>4 DEF Ma!RunReads, Ma!RunStarts, MakingTyped, MakingRequestsTyped
<1>5. \A r \in Requests : [request[r] EXCEPT !.at = "done", !.copy = None] \in Asked
  BY DEF MakingTyped, MakingRequestsTyped, Asked
<1>6. CASE Ma!Crash
  BY <1>5, <1>6 DEF Ma!Crash, MakingRequestsTyped
<1> QED BY <1>1, <1>2, <1>3, <1>4, <1>6 DEF Ma!Next, Ma!Task

\* The registers keep their types.
LEMMA RegistersStep ==
    ASSUME MakingTyped, CopiesFit, [Ma!Next]_(Ma!vars)
    PROVE  RegistersTyped'
<1>1. CASE UNCHANGED Ma!vars
  BY <1>1 DEF Ma!history, MakingTyped, RegistersTyped, Ma!vars
<1>2. ASSUME Ma!RunReads PROVE RegistersTyped'
  BY <1>2 DEF Ma!RunReads, Ma!history, MakingTyped, RegistersTyped
<1>3. ASSUME Ma!RunStarts PROVE RegistersTyped'
  BY <1>3 DEF Ma!RunStarts, MakingTyped, RegistersTyped
<1>4. ASSUME Ma!Crash PROVE RegistersTyped'
  BY <1>4 DEF Ma!Crash, Ma!Empty, Registers, MakingTyped, RegistersTyped
<1>5. ASSUME NEW s \in Ma!Slots,
             Ma!List(s) \/ Ma!ListFails(s) \/ Ma!NotDue(s) \/ Ma!Choose(s) \/ Ma!NothingToDo(s) \/
             Ma!Paused(s)
      PROVE  RegistersTyped'
  BY <1>5 DEF Ma!List, Ma!ListFails, Ma!NotDue, Ma!Choose, Ma!NothingToDo, Ma!Paused, Ma!At, Ma!Close, Ma!End,
      Ma!Move, Ma!Abandon, Ma!history, MakingTyped, RegistersTyped
<1>6. ASSUME NEW s \in Ma!Slots,
             Ma!SendV2(s) \/ Ma!SendFails(s) \/ Ma!MarketClosed(s)
      PROVE  RegistersTyped'
  BY <1>6 DEF Ma!SendV2, Ma!SendFails, Ma!MarketClosed, Ma!At, Ma!Close, Ma!End, Ma!Placed, Ma!Move,
      Ma!history, MakingTyped, RegistersTyped
<1>7. ASSUME NEW s \in Ma!Slots, Ma!SendV1(s) PROVE RegistersTyped'
  <2>1. PICK e \in Events : e = s[1] /\ memory \in Registers
    BY SlotEvent DEF MakingTyped, RegistersTyped
  <2>2. CASE Ma!Has(memory, e)
    <3>1. [memory[e] EXCEPT !.invested = task[s].invested] \in Ma!Entry
      BY <2>1, <2>2, EntryOf, EntryChanges DEF MakingTyped, TasksTyped, Tasks
    <3> QED BY <1>7, <2>1, <2>2, <3>1, PutIs DEF Ma!SendV1, Ma!Overwrite, MakingTyped, RegistersTyped
  <2> QED BY <1>7, <2>1, <2>2 DEF Ma!SendV1, MakingTyped, RegistersTyped
<1>8. ASSUME NEW s \in Ma!Slots, Ma!Pause(s) PROVE RegistersTyped'
  <2>1. PICK e \in Events : e = s[1] /\ memory \in Registers
    BY SlotEvent DEF MakingTyped, RegistersTyped
  <2>2. CASE Ma!Has(memory, e)
    <3>1. [memory[e] EXCEPT !.on = FALSE] \in Ma!Entry
      BY <2>1, <2>2, EntryOf, EntryChanges
    <3> QED BY <1>8, <2>1, <2>2, <3>1, PutIs DEF Ma!Pause, Ma!Overwrite, MakingTyped, RegistersTyped
  <2> QED BY <1>8, <2>1, <2>2 DEF Ma!Pause, MakingTyped, RegistersTyped
<1>9. ASSUME NEW s \in Ma!Slots, Ma!ForgetReads(s) PROVE RegistersTyped'
  BY <1>9 DEF Ma!ForgetReads, Ma!At, Ma!history, MakingTyped, RegistersTyped
<1>10. ASSUME NEW s \in Ma!Slots, Ma!Forget(s) PROVE RegistersTyped'
  <2>1. s[1] \in Events /\ task[s].copy \in Registers
    BY <1>10, SlotEvent DEF Ma!Forget, Ma!At, CopiesFit
  <2> QED BY <1>10, <2>1, PutIs DEF Ma!Forget, Ma!Without, Ma!Overwrite, MakingTyped, RegistersTyped
<1>11. ASSUME NEW r \in Requests, Ma!Ask(r) PROVE RegistersTyped'
  BY <1>11 DEF Ma!Ask, Ma!history, MakingTyped, RegistersTyped
<1>12. ASSUME NEW r \in Requests, Ma!AddV1(r) PROVE RegistersTyped'
  <2>1. request[r] \in Asked /\ request[r].copy \in Registers /\ request[r].event \in Events
    BY <1>12 DEF Ma!AddV1, Ma!AddEntry, MakingTyped, MakingRequestsTyped, CopiesFit, Asked
  <2>2. PICK l \in Limits : Ma!AddEntry(r, l)
    BY <1>12 DEF Ma!AddV1
  <2>3. [on |-> TRUE, limit |-> l, invested |-> 0] \in Ma!Entry
    BY DEF Ma!Entry
  <2> QED BY <2>1, <2>2, <2>3, PutIs DEF Ma!AddEntry, Ma!Overwrite, MakingTyped, RegistersTyped
<1>13. ASSUME NEW r \in Requests, Ma!AddV2(r) PROVE RegistersTyped'
  <2>1. request[r] \in Asked /\ request[r].copy \in Registers /\ request[r].event \in Events
    BY <1>13 DEF Ma!AddV2, Ma!AddEntry, MakingTyped, MakingRequestsTyped, CopiesFit, Asked
  <2>2. PICK l \in Limits : Ma!AddEntry(r, l)
    BY <1>13, MatchMakingAssumption DEF Ma!AddV2
  <2>3. [on |-> TRUE, limit |-> l, invested |-> 0] \in Ma!Entry
    BY DEF Ma!Entry
  <2> QED BY <2>1, <2>2, <2>3, PutIs DEF Ma!AddEntry, Ma!Overwrite, MakingTyped, RegistersTyped
<1>14. ASSUME NEW r \in Requests, Ma!UpdateV1(r) PROVE RegistersTyped'
  <2>1. request[r] \in Asked /\ request[r].copy \in Registers /\ request[r].event \in Events
    BY <1>14 DEF Ma!UpdateV1, Ma!UpdateEntry, MakingTyped, MakingRequestsTyped, CopiesFit, Asked
  <2>2. PICK b \in BOOLEAN, l \in Limits : Ma!UpdateEntry(r, [Ma!Mine(r) EXCEPT !.on = b, !.limit = l])
    BY <1>14 DEF Ma!UpdateV1
  <2>3. Ma!Mine(r) \in Ma!Entry
    BY <2>1, <2>2, EntryOf DEF Ma!UpdateEntry, CopiesFit, Ma!Mine
  <2>4. [Ma!Mine(r) EXCEPT !.on = b, !.limit = l] \in Ma!Entry
    BY <2>3, EntryChanges
  <2> QED BY <2>1, <2>2, <2>4, PutIs DEF Ma!UpdateEntry, Ma!Overwrite, MakingTyped, RegistersTyped
<1>15. ASSUME NEW r \in Requests, Ma!UpdateV2(r) PROVE RegistersTyped'
  <2>1. request[r] \in Asked /\ request[r].copy \in Registers /\ request[r].event \in Events
    BY <1>15 DEF Ma!UpdateV2, Ma!UpdateEntry, MakingTyped, MakingRequestsTyped, CopiesFit, Asked
  <2>2. PICK b \in BOOLEAN : Ma!UpdateEntry(r, [Ma!Mine(r) EXCEPT !.on = b])
    BY <1>15 DEF Ma!UpdateV2
  <2>3. Ma!Mine(r) \in Ma!Entry
    BY <2>1, <2>2, EntryOf DEF Ma!UpdateEntry, CopiesFit, Ma!Mine
  <2>4. [Ma!Mine(r) EXCEPT !.on = b] \in Ma!Entry
    BY <2>3, EntryChanges
  <2> QED BY <2>1, <2>2, <2>4, PutIs DEF Ma!UpdateEntry, Ma!Overwrite, MakingTyped, RegistersTyped
<1>16. ASSUME NEW r \in Requests, Ma!DeleteReads(r) PROVE RegistersTyped'
  BY <1>16 DEF Ma!DeleteReads, Ma!history, MakingTyped, RegistersTyped
<1>17. ASSUME NEW r \in Requests, Ma!Delete(r) PROVE RegistersTyped'
  <2>1. request[r] \in Asked /\ request[r].copy \in Registers /\ request[r].event \in Events
    BY <1>17 DEF Ma!Delete, MakingTyped, MakingRequestsTyped, CopiesFit, Asked
  <2> QED BY <1>17, <2>1, PutIs DEF Ma!Delete, Ma!Without, Ma!Overwrite, MakingTyped, RegistersTyped
<1> QED BY <1>1, <1>2, <1>3, <1>4, <1>5, <1>6, <1>7, <1>8, <1>9, <1>10, <1>11,
    <1>12, <1>13, <1>14, <1>15, <1>16, <1>17 DEF Ma!Next, Ma!Task

\* The other variables keep their types.
LEMMA NumbersStep ==
    ASSUME MakingTyped, CopiesFit, [Ma!Next]_(Ma!vars)
    PROVE  NumbersTyped'
<1>1. CASE UNCHANGED Ma!vars
  BY <1>1 DEF Ma!history, MakingTyped, NumbersTyped, Ma!vars
<1>2. ASSUME Ma!RunReads PROVE NumbersTyped'
  BY <1>2 DEF Ma!RunReads, Ma!history, MakingTyped, NumbersTyped
<1>3. ASSUME Ma!RunStarts PROVE NumbersTyped'
  BY <1>3 DEF Ma!RunStarts, Ma!Due, MakingTyped, NumbersTyped
<1>4. ASSUME Ma!Crash PROVE NumbersTyped'
  <2>1. \A p \in SUBSET {s[1] : s \in {x \in Ma!Slots : Ma!At(x, "send") /\ version = "v1"}} : p \subseteq Events
    BY SlotEvent
  <2>2. PICK p \in SUBSET {s[1] : s \in {x \in Ma!Slots : Ma!At(x, "send") /\ version = "v1"}} :
          /\ \A e \in p : spent[e] < MaxSpent
          /\ spent' = [e \in Events |-> IF e \in p THEN spent[e] + 1 ELSE spent[e]]
          /\ uncertain' = uncertain \union p
    BY <1>4 DEF Ma!Crash
  <2>3. spent' \in [Events -> 0 .. MaxSpent]
    BY <2>2, MatchMakingAssumption DEF MakingTyped, NumbersTyped
  <2>4. uncertain' \subseteq Events
    BY <2>1, <2>2 DEF MakingTyped, NumbersTyped
  <2> QED BY <1>4, <2>3, <2>4 DEF Ma!Crash, MakingTyped, NumbersTyped
<1>5. ASSUME NEW s \in Ma!Slots,
             Ma!List(s) \/ Ma!ListFails(s) \/ Ma!NotDue(s) \/ Ma!Choose(s) \/ Ma!NothingToDo(s)
      PROVE  NumbersTyped'
  BY <1>5 DEF Ma!List, Ma!ListFails, Ma!NotDue, Ma!Choose, Ma!NothingToDo, Ma!At, Ma!Close, Ma!End, Ma!Move,
      Ma!history, MakingTyped, NumbersTyped
<1>6. ASSUME NEW s \in Ma!Slots, Ma!Paused(s) PROVE NumbersTyped'
  BY <1>6, SlotEvent, MatchMakingAssumption DEF Ma!Paused, Ma!At, Ma!Abandon, Ma!End, MakingTyped, NumbersTyped
<1>7. ASSUME NEW s \in Ma!Slots, Ma!SendV1(s) PROVE NumbersTyped'
  <2>1. s[1] \in Events /\ spent[s[1]] < MaxSpent /\ spent' = [spent EXCEPT ![s[1]] = spent[s[1]] + 1]
    BY <1>7, SlotEvent DEF Ma!SendV1, Ma!Placed
  <2>2. spent' \in [Events -> 0 .. MaxSpent]
    BY <2>1, MatchMakingAssumption DEF MakingTyped, NumbersTyped
  <2> QED BY <1>7, <2>1, <2>2 DEF Ma!SendV1, Ma!Overwrite, Ma!Abandon, MakingTyped, NumbersTyped
<1>8. ASSUME NEW s \in Ma!Slots, Ma!SendV2(s) PROVE NumbersTyped'
  BY <1>8, SlotEvent, MatchMakingAssumption DEF Ma!SendV2, Ma!At, Ma!Close, Ma!End, MakingTyped, NumbersTyped
<1>9. ASSUME NEW s \in Ma!Slots, Ma!SendFails(s) PROVE NumbersTyped'
  BY <1>9, SlotEvent, MatchMakingAssumption DEF Ma!SendFails, Ma!At, Ma!Placed, Ma!Move, Ma!Close, Ma!End, MakingTyped, NumbersTyped
<1>10. ASSUME NEW s \in Ma!Slots, Ma!MarketClosed(s) PROVE NumbersTyped'
  BY <1>10, SlotEvent, MatchMakingAssumption DEF Ma!MarketClosed, Ma!At, Ma!Move, MakingTyped, NumbersTyped
<1>11. ASSUME NEW s \in Ma!Slots, Ma!Pause(s) PROVE NumbersTyped'
  BY <1>11, SlotEvent, MatchMakingAssumption DEF Ma!Pause, Ma!At, Ma!Overwrite, Ma!Move, Ma!Abandon, Ma!Close, Ma!End, MakingTyped, NumbersTyped
<1>12. ASSUME NEW s \in Ma!Slots, Ma!ForgetReads(s) PROVE NumbersTyped'
  BY <1>12 DEF Ma!ForgetReads, Ma!At, Ma!history, MakingTyped, NumbersTyped
<1>13. ASSUME NEW s \in Ma!Slots, Ma!Forget(s) PROVE NumbersTyped'
  BY <1>13, SlotEvent, MatchMakingAssumption DEF Ma!Forget, Ma!At, Ma!Overwrite, Ma!End, MakingTyped, NumbersTyped
<1>14. ASSUME NEW r \in Requests, Ma!Ask(r) PROVE NumbersTyped'
  BY <1>14 DEF Ma!Ask, Ma!history, MakingTyped, NumbersTyped
<1>15. ASSUME NEW r \in Requests, Ma!AddV1(r) PROVE NumbersTyped'
  <2>1. PICK l \in Limits : Ma!AddEntry(r, l)
    BY <1>15, MatchMakingAssumption DEF Ma!AddV1
  <2>2. request[r] \in Asked /\ l \in Nat
    BY MatchMakingAssumption DEF MakingTyped, MakingRequestsTyped
  <2> QED BY <2>1, <2>2, MatchMakingAssumption DEF Ma!AddEntry, Ma!Overwrite, Asked, MakingTyped, NumbersTyped
<1>16. ASSUME NEW r \in Requests, Ma!AddV2(r) PROVE NumbersTyped'
  <2>1. PICK l \in Limits : Ma!AddEntry(r, l)
    BY <1>16, MatchMakingAssumption DEF Ma!AddV2
  <2>2. request[r] \in Asked /\ l \in Nat
    BY MatchMakingAssumption DEF MakingTyped, MakingRequestsTyped
  <2> QED BY <2>1, <2>2, MatchMakingAssumption DEF Ma!AddEntry, Ma!Overwrite, Asked, MakingTyped, NumbersTyped
<1>17. ASSUME NEW r \in Requests, Ma!UpdateV1(r) PROVE NumbersTyped'
  <2>1. PICK new \in Ma!Entry : Ma!UpdateEntry(r, new)
    <3>1. request[r] \in Asked /\ request[r].copy \in Registers /\ request[r].event \in Events
      BY <1>17 DEF Ma!UpdateV1, Ma!UpdateEntry, MakingTyped, MakingRequestsTyped, CopiesFit, Asked
    <3>2. request[r].kind = "update"
      BY <1>17 DEF Ma!UpdateV1, Ma!UpdateEntry
    <3>3. Ma!Mine(r) \in Ma!Entry
      BY <1>17, <3>1, <3>2, EntryOf DEF Ma!UpdateV1, CopiesFit, Ma!Mine
    <3> QED BY <1>17, <3>3, EntryChanges DEF Ma!UpdateV1
  <2>2. request[r] \in Asked /\ new.limit \in Nat
    BY EntryFields DEF MakingTyped, MakingRequestsTyped
  <2> QED BY <2>1, <2>2 DEF Ma!UpdateEntry, Ma!Overwrite, Asked, MakingTyped, NumbersTyped
<1>18. ASSUME NEW r \in Requests, Ma!UpdateV2(r) PROVE NumbersTyped'
  <2>1. PICK new \in Ma!Entry : Ma!UpdateEntry(r, new)
    <3>1. request[r] \in Asked /\ request[r].copy \in Registers /\ request[r].event \in Events
      BY <1>18 DEF Ma!UpdateV2, Ma!UpdateEntry, MakingTyped, MakingRequestsTyped, CopiesFit, Asked
    <3>2. request[r].kind = "update"
      BY <1>18 DEF Ma!UpdateV2, Ma!UpdateEntry
    <3>3. Ma!Mine(r) \in Ma!Entry
      BY <1>18, <3>1, <3>2, EntryOf DEF Ma!UpdateV2, CopiesFit, Ma!Mine
    <3> QED BY <1>18, <3>3, EntryChanges DEF Ma!UpdateV2
  <2>2. request[r] \in Asked /\ new.limit \in Nat
    BY EntryFields DEF MakingTyped, MakingRequestsTyped
  <2> QED BY <2>1, <2>2 DEF Ma!UpdateEntry, Ma!Overwrite, Asked, MakingTyped, NumbersTyped
<1>19. ASSUME NEW r \in Requests, Ma!DeleteReads(r) PROVE NumbersTyped'
  BY <1>19 DEF Ma!DeleteReads, Ma!history, MakingTyped, NumbersTyped
<1>20. ASSUME NEW r \in Requests, Ma!Delete(r) PROVE NumbersTyped'
  <2>1. request[r] \in Asked
    BY DEF MakingTyped, MakingRequestsTyped
  <2> QED BY <1>20, <2>1 DEF Ma!Delete, Ma!Overwrite, Asked, MakingTyped, NumbersTyped
<1> QED BY <1>1, <1>2, <1>3, <1>4, <1>5, <1>6, <1>7, <1>8, <1>9, <1>10, <1>11,
    <1>12, <1>13, <1>14, <1>15, <1>16, <1>17, <1>18, <1>19, <1>20 DEF Ma!Next, Ma!Task

\* Copies are registers.
LEMMA CopiesStep ==
    ASSUME MakingTyped, CopiesFit, [Ma!Next]_(Ma!vars)
    PROVE  CopiesFit'
<1>1. CASE UNCHANGED Ma!vars
  BY <1>1 DEF Ma!vars, CopiesFit, Ma!Has
<1>2. ASSUME NEW s \in Ma!Slots, Ma!Task(s) PROVE CopiesFit'
  <2>1. \A t \in Ma!Slots : t # s => task'[t] = task[t]
    BY <1>2, TaskChange
  <2>2. request' = request /\ stored \in Registers
    BY <1>2 DEF Ma!Task, Ma!List, Ma!ListFails, Ma!NotDue, Ma!Choose, Ma!NothingToDo, Ma!Paused, Ma!SendV1, Ma!SendV2, Ma!SendFails,
                Ma!MarketClosed, Ma!Pause, Ma!ForgetReads, Ma!Forget, MakingTyped, RegistersTyped
  <2>3. task'[s].at = "forgotten" => task'[s].copy = stored
    BY <1>2, TaskPlace DEF Ma!Task
  <2> QED BY <2>1, <2>2, <2>3 DEF CopiesFit, Ma!Has
<1>3. ASSUME NEW r \in Requests, Ma!Ask(r) \/ Ma!AddV1(r) \/ Ma!AddV2(r) \/ Ma!UpdateV1(r) \/ Ma!UpdateV2(r)
                                 \/ Ma!DeleteReads(r) \/ Ma!Delete(r)
      PROVE  CopiesFit'
  <2>1. task' = task /\ stored \in Registers
    BY <1>3 DEF Ma!Ask, Ma!AddV1, Ma!AddV2, Ma!AddEntry, Ma!UpdateV1, Ma!UpdateV2, Ma!UpdateEntry, Ma!DeleteReads, Ma!Delete,
                MakingTyped, RegistersTyped
  <2>2. request'[r].at \in {"asked", "reread"} => request'[r].copy = stored
    BY <1>3, RequestChange
  <2> QED BY <1>3, <2>1, <2>2, RequestChange DEF CopiesFit, Ma!Has
<1>4. CASE Ma!RunReads
  BY <1>4 DEF Ma!RunReads, CopiesFit, Ma!Has
<1>5. CASE Ma!RunStarts
  <2>1. \A s \in Ma!Slots : task'[s] = task[s] \/ task'[s].at = "list"
    BY <1>5 DEF Ma!RunStarts, Ma!Free
  <2> QED BY <1>5, <2>1 DEF Ma!RunStarts, CopiesFit, Ma!Has
<1>6. CASE Ma!Crash
  <2>1. \A s \in Ma!Slots : task'[s].at = "free"
    BY <1>6 DEF Ma!Crash, Ma!Free
  <2>2. \A r \in Requests : request'[r].at = "done"
    BY <1>6 DEF Ma!Crash, MakingTyped, MakingRequestsTyped, Asked
  <2> QED BY <2>1, <2>2 DEF CopiesFit
<1> QED BY <1>1, <1>2, <1>3, <1>4, <1>5, <1>6 DEF Ma!Next, Ma!Task

\* All types are kept.
LEMMA MakingFits ==
    ASSUME MakingTyped, CopiesFit, [Ma!Next]_(Ma!vars)
    PROVE  MakingTyped' /\ CopiesFit'
BY TasksStep, MakingRequestsStep, RegistersStep, NumbersStep, CopiesStep DEF MakingTyped

\* A step of a task starts no other, and one that ends is gone.
LEMMA BusyChange ==
    ASSUME MakingTyped, NEW s \in Ma!Slots, Ma!Task(s)
    PROVE  /\ \A e \in Events : Ma!Busy(e)' \subseteq Ma!Busy(e)
           /\ \A e \in Events : e # s[1] => Ma!Busy(e)' = Ma!Busy(e)
           /\ s \in Ma!Busy(s[1])
           /\ s \in Ma!Busy(s[1])' <=> task'[s].at # "free"
<1>1. \A t \in Ma!Slots : t # s => task'[t] = task[t]
  BY TaskChange
<1>2. task[s].at # "free"
  BY TaskPlace
<1> QED BY <1>1, <1>2 DEF Ma!Busy

\* A task's step leaves its event in runningEvents, or ends, or releases the event.
LEMMA RunningChange ==
    ASSUME MakingTyped, NEW s \in Ma!Slots, Ma!Task(s)
    PROVE  /\ \/ running' = running
              \/ running' = running \ {s[1]} /\ (task'[s].at = "free" \/ s[1] \in released')
           /\ released \subseteq released'
<1>1. CASE Ma!List(s) \/ Ma!NotDue(s) \/ Ma!Choose(s) \/ Ma!ForgetReads(s)
  BY <1>1 DEF Ma!List, Ma!NotDue, Ma!Choose, Ma!ForgetReads, Ma!history
<1>2. CASE Ma!ListFails(s) \/ Ma!NothingToDo(s) \/ Ma!Paused(s) \/ Ma!Forget(s)
  BY <1>2, TaskPlace DEF Ma!ListFails, Ma!NothingToDo, Ma!Paused, Ma!Forget, Ma!Close, Ma!Abandon
<1>3. CASE Ma!SendV1(s) \/ Ma!SendFails(s)
  BY <1>3, TaskPlace DEF Ma!SendV1, Ma!SendFails, Ma!Close, Ma!Abandon, MakingTyped, NumbersTyped
<1>4. CASE Ma!SendV2(s)
  <2>1. task[s].left = 0 => task'[s].at = "free"
    BY <1>4 DEF Ma!SendV2, Ma!Close, Ma!End, Ma!Free, MakingTyped, TasksTyped
  <2>2. released' = released
    BY <1>4 DEF Ma!SendV2
  <2> QED BY <1>4, <2>1, <2>2 DEF Ma!SendV2, Ma!Close
<1>5. CASE Ma!MarketClosed(s)
  BY <1>5 DEF Ma!MarketClosed
<1>6. CASE Ma!Pause(s)
  <2>1. Ma!End(s) => task'[s].at = "free"
    BY DEF Ma!End, Ma!Free, MakingTyped, TasksTyped
  <2> QED BY <1>6, <2>1 DEF Ma!Pause, Ma!Close, Ma!Abandon
<1> QED BY <1>1, <1>2, <1>3, <1>4, <1>5, <1>6 DEF Ma!Task

\* A run starts one task for each event that is due, in a free slot.
LEMMA Started ==
    ASSUME MakingTyped, Ma!RunStarts
    PROVE  /\ \A e \in Events \ Ma!Due : Ma!Busy(e)' = Ma!Busy(e)
           /\ \A e \in Ma!Due : Ma!Busy(e) = {} => Ma!Busy(e)' = {<<e, 1>>}
           /\ \A s \in Ma!Slots : task'[s] = task[s] \/ task'[s].at = "list"
<1>1. \A s \in Ma!Slots : task'[s] = IF \E e \in Ma!Due : s = Ma!FreeSlot(e)
                                  THEN [Ma!Free EXCEPT !.at = "list"] ELSE task[s]
  BY DEF Ma!RunStarts
<1>2. [Ma!Free EXCEPT !.at = "list"].at = "list"
  BY DEF Ma!Free
<1>3. \A e \in Events : Ma!FreeSlot(e) \in Ma!Slots /\ Ma!FreeSlot(e)[1] = e
  BY DEF Ma!FreeSlot, Ma!Slots
<1>4. Ma!Due \subseteq Events
  BY DEF Ma!Due
<1>5. \A e \in Events \ Ma!Due : Ma!Busy(e)' = Ma!Busy(e)
  BY <1>1, <1>3, <1>4 DEF Ma!Busy
<1>6. ASSUME NEW e \in Ma!Due, Ma!Busy(e) = {} PROVE Ma!Busy(e)' = {<<e, 1>>}
  <2>1. Ma!FreeSlot(e) = <<e, 1>>
    BY <1>4, <1>6 DEF Ma!FreeSlot, Ma!Busy, Ma!Slots
  <2>2. \A s \in Ma!Slots : s[1] = e => ((\E d \in Ma!Due : s = Ma!FreeSlot(d)) <=> s = <<e, 1>>)
    BY <1>3, <1>4, <2>1
  <2>3. \A s \in Ma!Slots : s[1] = e => task[s].at = "free"
    BY <1>6 DEF Ma!Busy
  <2>4. \A s \in Ma!Slots : s[1] = e => (task'[s].at # "free" <=> s = <<e, 1>>)
    BY <1>1, <1>2, <2>2, <2>3
  <2>5. <<e, 1>> \in Ma!Slots
    BY <1>4 DEF Ma!Slots
  <2> QED BY <2>4, <2>5 DEF Ma!Busy
<1> QED BY <1>1, <1>2, <1>5, <1>6

\* A second task starts only on an event that was released.
LEMMA OneTaskStep ==
    ASSUME MakingTyped, OneTask, [Ma!Next]_(Ma!vars)
    PROVE  OneTask'
<1>1. CASE UNCHANGED Ma!vars
  BY <1>1 DEF Ma!vars, Ma!history, OneTask, Ma!Busy
<1>2. ASSUME NEW s \in Ma!Slots, Ma!Task(s) PROVE OneTask'
  <2>1. s[1] \in Events
    BY SlotEvent
  <2> SUFFICES ASSUME NEW e \in Events, e \notin released'
               PROVE  (\A t, u \in Ma!Busy(e)' : t = u) /\ (Ma!Busy(e)' # {} => e \in running')
    BY DEF OneTask
  <2>2. e \notin released /\ \A t, u \in Ma!Busy(e) : t = u
    BY <1>2, RunningChange DEF OneTask
  <2>3. Ma!Busy(e) # {} => e \in running
    BY <2>2 DEF OneTask
  <2>4. CASE e # s[1]
    BY <1>2, <2>2, <2>3, <2>4, BusyChange, RunningChange
  <2>5. CASE e = s[1]
    <3>1. Ma!Busy(e) = {s}
      BY <1>2, <2>2, <2>5, BusyChange
    <3>2. task'[s].at = "free" => Ma!Busy(e)' = {}
      BY <1>2, <2>1, <2>5, <3>1, BusyChange
    <3> QED BY <1>2, <2>1, <2>2, <2>3, <2>5, <3>1, <3>2, BusyChange, RunningChange
  <2> QED BY <2>4, <2>5
<1>3. ASSUME NEW r \in Requests, Ma!Ask(r) \/ Ma!AddV1(r) \/ Ma!AddV2(r) \/ Ma!UpdateV1(r) \/ Ma!UpdateV2(r)
                                 \/ Ma!DeleteReads(r)
      PROVE  OneTask'
  <2>1. task' = task /\ running' = running /\ released' = released
    BY <1>3 DEF Ma!Ask, Ma!AddV1, Ma!AddV2, Ma!AddEntry, Ma!UpdateV1, Ma!UpdateV2, Ma!UpdateEntry, Ma!DeleteReads, Ma!history
  <2> QED BY <2>1 DEF OneTask, Ma!Busy
<1>4. ASSUME NEW r \in Requests, Ma!Delete(r) PROVE OneTask'
  <2>1. task' = task /\ running' = running \ {request[r].event}
        /\ released' = released \union {x \in {request[r].event} : Ma!Busy(request[r].event) # {}}
    BY <1>4 DEF Ma!Delete
  <2>2. \A e \in Events : Ma!Busy(e)' = Ma!Busy(e)
    BY <2>1 DEF Ma!Busy
  <2> QED BY <2>1, <2>2 DEF OneTask
<1>5. CASE Ma!RunReads
  BY <1>5 DEF Ma!RunReads, Ma!history, OneTask, Ma!Busy
<1>6. CASE Ma!RunStarts
  <2> SUFFICES ASSUME NEW e \in Events, e \notin released'
               PROVE  (\A t, u \in Ma!Busy(e)' : t = u) /\ (Ma!Busy(e)' # {} => e \in running')
    BY DEF OneTask
  <2>1. /\ released' = released /\ running' = running \union Ma!Due
        /\ \A d \in Ma!Due : d \notin running
    BY <1>6 DEF Ma!RunStarts, Ma!Due
  <2>2. (\A t, u \in Ma!Busy(e) : t = u) /\ (Ma!Busy(e) # {} => e \in running)
    BY <2>1 DEF OneTask
  <2> QED BY <1>6, <2>1, <2>2, Started
<1>7. CASE Ma!Crash
  <2>1. \A e \in Events : Ma!Busy(e)' = {}
    BY <1>7 DEF Ma!Crash, Ma!Free, Ma!Busy
  <2> QED BY <2>1 DEF OneTask
<1> QED BY <1>1, <1>2, <1>3, <1>4, <1>5, <1>6, <1>7 DEF Ma!Next, Ma!Task

\* A copy that replaces the register without a loss was the register.
LEMMA NoLoss ==
    ASSUME NEW entries, NEW register, Ma!Overwrite(entries, register), ~lost'
    PROVE  entries = stored /\ stored' = register /\ ~lost
BY DEF Ma!Overwrite

\* What a request writes into the register.
LEMMA Written ==
    ASSUME MakingTyped, CopiesFit, NEW r \in Requests
    PROVE  /\ request[r].event \in Events
           /\ Ma!AddV1(r) \/ Ma!AddV2(r) => /\ request[r].copy \in Registers /\ ~Ma!Has(request[r].copy, request[r].event)
                                      /\ \E l \in Limits : Ma!AddEntry(r, l)
           /\ Ma!UpdateV1(r) \/ Ma!UpdateV2(r) =>
                 /\ request[r].copy \in Registers /\ Ma!Mine(r) \in Ma!Entry
                 /\ \E new \in Ma!Entry : new.invested = Ma!Mine(r).invested /\ Ma!UpdateEntry(r, new)
           /\ Ma!Delete(r) => request[r].copy \in Registers
<1>1. request[r] \in Asked /\ request[r].event \in Events
  BY DEF MakingTyped, MakingRequestsTyped, Asked
<1>2. Ma!AddV1(r) \/ Ma!AddV2(r) => /\ request[r].copy \in Registers /\ ~Ma!Has(request[r].copy, request[r].event)
                              /\ \E l \in Limits : Ma!AddEntry(r, l)
  <2>1. Ma!AddV1(r) \/ Ma!AddV2(r) => \E l \in Limits : Ma!AddEntry(r, l)
    BY MatchMakingAssumption DEF Ma!AddV1, Ma!AddV2
  <2>2. ASSUME NEW l \in Limits, Ma!AddEntry(r, l)
        PROVE  request[r].copy \in Registers /\ ~Ma!Has(request[r].copy, request[r].event)
    BY <2>2 DEF Ma!AddEntry, CopiesFit
  <2> QED BY <2>1, <2>2
<1>3. ASSUME NEW new, Ma!UpdateEntry(r, new)
      PROVE  request[r].copy \in Registers /\ Ma!Mine(r) \in Ma!Entry
  <2>1. request[r].copy \in Registers /\ Ma!Has(request[r].copy, request[r].event)
    BY <1>3 DEF Ma!UpdateEntry, CopiesFit
  <2> QED BY <1>1, <2>1, EntryOf DEF Ma!Mine
<1>4. Ma!UpdateV1(r) => /\ request[r].copy \in Registers /\ Ma!Mine(r) \in Ma!Entry
                     /\ \E new \in Ma!Entry : new.invested = Ma!Mine(r).invested /\ Ma!UpdateEntry(r, new)
  <2> SUFFICES ASSUME Ma!UpdateV1(r)
               PROVE  /\ request[r].copy \in Registers /\ Ma!Mine(r) \in Ma!Entry
                      /\ \E new \in Ma!Entry : new.invested = Ma!Mine(r).invested /\ Ma!UpdateEntry(r, new)
    OBVIOUS
  <2>1. PICK b \in BOOLEAN, l \in Limits : Ma!UpdateEntry(r, [Ma!Mine(r) EXCEPT !.on = b, !.limit = l])
    BY DEF Ma!UpdateV1
  <2>2. request[r].copy \in Registers /\ Ma!Mine(r) \in Ma!Entry
    BY <1>3, <2>1
  <2> QED BY <2>1, <2>2, EntryChanges
<1>5. Ma!UpdateV2(r) => /\ request[r].copy \in Registers /\ Ma!Mine(r) \in Ma!Entry
                     /\ \E new \in Ma!Entry : new.invested = Ma!Mine(r).invested /\ Ma!UpdateEntry(r, new)
  <2> SUFFICES ASSUME Ma!UpdateV2(r)
               PROVE  /\ request[r].copy \in Registers /\ Ma!Mine(r) \in Ma!Entry
                      /\ \E new \in Ma!Entry : new.invested = Ma!Mine(r).invested /\ Ma!UpdateEntry(r, new)
    OBVIOUS
  <2>1. PICK b \in BOOLEAN : Ma!UpdateEntry(r, [Ma!Mine(r) EXCEPT !.on = b])
    BY DEF Ma!UpdateV2
  <2>2. request[r].copy \in Registers /\ Ma!Mine(r) \in Ma!Entry
    BY <1>3, <2>1
  <2> QED BY <2>1, <2>2, EntryChanges
<1>6. Ma!Delete(r) => request[r].copy \in Registers
  BY DEF Ma!Delete, CopiesFit
<1> QED BY <1>1, <1>2, <1>4, <1>5, <1>6

\* A register is replaced by what was read from it, changed in one event.
LEMMA InStepStep ==
    ASSUME MakingTyped, CopiesFit, InStep, [Ma!Next]_(Ma!vars)
    PROVE  InStep'
<1>1. CASE UNCHANGED <<version, stored, memory, ceiling, lost>>
  BY <1>1 DEF InStep, InStepFor, Ma!Has
<1> SUFFICES ASSUME version' = "v1", ~lost', NEW e \in Events PROVE InStepFor(e)'
  BY DEF InStep
<1>2. ASSUME version = "v1", ~lost
      PROVE  /\ InStepFor(e)
             /\ Ma!Has(stored, e) => stored[e] \in Ma!Entry
             /\ Ma!Has(memory, e) => memory[e] \in Ma!Entry
             /\ stored \in Registers /\ memory \in Registers /\ ceiling \in [Events -> Nat]
  BY <1>2, EntryOf DEF InStep, MakingTyped, RegistersTyped, NumbersTyped
<1>3. ASSUME NEW s \in Ma!Slots, Ma!SendV1(s), Ma!Has(memory, s[1]) PROVE InStepFor(e)'
  <2>1. memory' = Ma!Put(memory, s[1], [memory[s[1]] EXCEPT !.invested = task[s].invested])
        /\ Ma!Overwrite(memory, memory') /\ ceiling' = ceiling /\ version' = version
    BY <1>3 DEF Ma!SendV1
  <2>2. memory = stored /\ stored' = memory' /\ ~lost
    BY <2>1, NoLoss
  <2>3. memory[s[1]] \in Ma!Entry /\ task[s].invested \in Nat /\ s[1] \in Events
    BY <1>3, EntryOf, SlotEvent DEF MakingTyped, RegistersTyped, TasksTyped, Tasks
  <2>5. memory \in Registers
    BY DEF MakingTyped, RegistersTyped
  <2>7. [memory[s[1]] EXCEPT !.invested = task[s].invested] \in Ma!Entry
        /\ [memory[s[1]] EXCEPT !.invested = task[s].invested].limit = memory[s[1]].limit
    BY <2>3, EntryChanges
  <2>6. PICK x \in Ma!Entry : memory' = Ma!Put(memory, s[1], x) /\ x.limit = memory[s[1]].limit
    BY <2>1, <2>7
  <2>4. /\ memory'[s[1]].limit = memory[s[1]].limit
        /\ e # s[1] => memory'[e] = memory[e]
    BY <2>3, <2>5, <2>6, PutIs
  <2> QED BY <1>2, <1>3, <2>1, <2>2, <2>4 DEF InStepFor, Ma!Has
<1>4. ASSUME NEW s \in Ma!Slots, Ma!Pause(s), Ma!Has(memory, s[1]) PROVE InStepFor(e)'
  <2>1. memory' = Ma!Put(memory, s[1], [memory[s[1]] EXCEPT !.on = FALSE])
        /\ Ma!Overwrite(memory, memory') /\ ceiling' = ceiling /\ version' = version
    BY <1>4 DEF Ma!Pause
  <2>2. memory = stored /\ stored' = memory' /\ ~lost
    BY <2>1, NoLoss
  <2>3. memory[s[1]] \in Ma!Entry /\ s[1] \in Events
    BY <1>4, EntryOf, SlotEvent DEF MakingTyped, RegistersTyped
  <2>5. memory \in Registers
    BY DEF MakingTyped, RegistersTyped
  <2>6. PICK x \in Ma!Entry : memory' = Ma!Put(memory, s[1], x) /\ x.limit = memory[s[1]].limit
    BY <2>1, <2>3, EntryChanges
  <2>4. /\ memory'[s[1]].limit = memory[s[1]].limit
        /\ e # s[1] => memory'[e] = memory[e]
    BY <2>3, <2>5, <2>6, PutIs
  <2> QED BY <1>2, <1>4, <2>1, <2>2, <2>4 DEF InStepFor, Ma!Has
<1>5. ASSUME NEW s \in Ma!Slots, Ma!Forget(s) PROVE InStepFor(e)'
  <2>1. memory' = Ma!Put(task[s].copy, s[1], None) /\ Ma!Overwrite(task[s].copy, memory')
        /\ ceiling' = ceiling /\ version' = version
    BY <1>5 DEF Ma!Forget, Ma!Without
  <2>2. task[s].copy = stored /\ stored' = memory' /\ ~lost /\ s[1] \in Events
    BY <2>1, NoLoss, SlotEvent
  <2>3. memory'[s[1]] = None /\ (e # s[1] => memory'[e] = stored[e])
    BY <1>2, <2>1, <2>2, PutIs
  <2> QED BY <1>2, <2>1, <2>2, <2>3 DEF InStepFor, Ma!Has
<1>6. ASSUME NEW r \in Requests, Ma!Delete(r) PROVE InStepFor(e)'
  <2>1. memory' = Ma!Put(request[r].copy, request[r].event, None) /\ Ma!Overwrite(request[r].copy, memory')
        /\ ceiling' = ceiling /\ version' = version
    BY <1>6 DEF Ma!Delete, Ma!Without
  <2>2. request[r].copy = stored /\ stored' = memory' /\ ~lost /\ request[r].event \in Events
    BY <2>1, NoLoss, Written
  <2>3. memory'[request[r].event] = None /\ (e # request[r].event => memory'[e] = stored[e])
    BY <1>2, <2>1, <2>2, PutIs
  <2> QED BY <1>2, <2>1, <2>2, <2>3 DEF InStepFor, Ma!Has
<1>7. ASSUME NEW r \in Requests, Ma!AddV1(r) \/ Ma!AddV2(r) PROVE InStepFor(e)'
  <2>1. PICK l \in Limits : Ma!AddEntry(r, l)
    BY <1>7, Written
  <2> DEFINE f == request[r].event
             x == [on |-> TRUE, limit |-> l, invested |-> 0]
  <2>2. Ma!Overwrite(request[r].copy, Ma!Put(request[r].copy, f, x)) /\ memory' = memory
        /\ ceiling' = [ceiling EXCEPT ![f] = l] /\ version' = version
    BY <2>1 DEF Ma!AddEntry
  <2>3. request[r].copy = stored /\ stored' = Ma!Put(stored, f, x) /\ ~lost /\ f \in Events
    BY <2>2, NoLoss, Written
  <2>4. ~Ma!Has(stored, f) /\ x \in Ma!Entry /\ x.limit = l /\ l \in Nat
    BY <1>7, <2>3, Written, MatchMakingAssumption DEF Ma!Entry
  <2>5. /\ stored'[f] = x /\ ceiling'[f] = l
        /\ e # f => stored'[e] = stored[e] /\ ceiling'[e] = ceiling[e]
    BY <1>2, <2>2, <2>3, <2>4, PutIs
  <2>6. CASE e = f
    BY <1>2, <2>2, <2>3, <2>4, <2>5, <2>6 DEF InStepFor, Ma!Has
  <2>7. CASE e # f
    BY <1>2, <2>2, <2>3, <2>5, <2>7 DEF InStepFor, Ma!Has
  <2> QED BY <2>6, <2>7
<1>8. ASSUME NEW r \in Requests, Ma!UpdateV1(r) \/ Ma!UpdateV2(r) PROVE InStepFor(e)'
  <2>1. PICK new \in Ma!Entry : new.invested = Ma!Mine(r).invested /\ Ma!UpdateEntry(r, new)
    BY <1>8, Written
  <2> DEFINE f == request[r].event
  <2>2. Ma!Overwrite(request[r].copy, Ma!Put(request[r].copy, f, new)) /\ memory' = memory
        /\ ceiling' = [ceiling EXCEPT ![f] = IF new.limit > ceiling[f] THEN new.limit ELSE ceiling[f]]
        /\ version' = version
    BY <2>1 DEF Ma!UpdateEntry
  <2>3. request[r].copy = stored /\ stored' = Ma!Put(stored, f, new) /\ ~lost /\ f \in Events
    BY <2>2, NoLoss, Written
  <2>4. Ma!Mine(r) = stored[f] /\ Ma!Mine(r) \in Ma!Entry /\ new.limit \in Nat /\ new # None /\ Ma!Mine(r) # None
    BY <1>8, <2>3, Written, EntryFields DEF Ma!Mine
  <2>5. /\ stored'[f] = new /\ ceiling'[f] = IF new.limit > ceiling[f] THEN new.limit ELSE ceiling[f]
        /\ e # f => stored'[e] = stored[e] /\ ceiling'[e] = ceiling[e]
    BY <1>2, <2>2, <2>3, <2>4, PutIs
  <2>6. CASE e = f
    <3>1. new.limit <= ceiling'[e] /\ ceiling[e] <= ceiling'[e] /\ ceiling[e] \in Nat /\ ceiling'[e] \in Nat
      BY <1>2, <2>2, <2>3, <2>4, <2>5, <2>6
    <3>2. Ma!Has(memory, e) => memory[e].limit \in Nat
      BY <1>2, <2>2, <2>3, EntryFields
    <3> QED BY <1>2, <2>1, <2>2, <2>3, <2>4, <2>5, <2>6, <3>1, <3>2 DEF InStepFor, Ma!Has
  <2>7. CASE e # f
    BY <1>2, <2>2, <2>3, <2>5, <2>7 DEF InStepFor, Ma!Has
  <2> QED BY <2>6, <2>7
<1>9. CASE Ma!RunStarts
  <2>1. memory' = cron /\ cron = stored /\ stored' = stored /\ ~lost /\ ceiling' = ceiling /\ version' = version
    BY <1>9 DEF Ma!RunStarts
  <2> QED BY <1>2, <2>1 DEF InStepFor, Ma!Has
<1>10. CASE Ma!Crash
  <2>1. memory' = Ma!Empty /\ stored' = stored /\ ~lost /\ ceiling' = ceiling /\ version' = version
    BY <1>10 DEF Ma!Crash
  <2> QED BY <1>2, <2>1 DEF InStepFor, Ma!Has, Ma!Empty
<1>11. ASSUME NEW s \in Ma!Slots,
              Ma!List(s) \/ Ma!ListFails(s) \/ Ma!NotDue(s) \/ Ma!Choose(s) \/ Ma!NothingToDo(s) \/ Ma!Paused(s) \/ Ma!SendV2(s)
                 \/ Ma!SendFails(s) \/ Ma!MarketClosed(s) \/ Ma!ForgetReads(s) \/ (Ma!SendV1(s) /\ ~Ma!Has(memory, s[1]))
                 \/ (Ma!Pause(s) /\ ~Ma!Has(memory, s[1]))
       PROVE  UNCHANGED <<version, stored, memory, ceiling, lost>>
  BY <1>11 DEF Ma!List, Ma!ListFails, Ma!NotDue, Ma!Choose, Ma!NothingToDo, Ma!Paused, Ma!SendV1, Ma!SendV2, Ma!SendFails,
               Ma!MarketClosed, Ma!Pause, Ma!ForgetReads, Ma!history
<1>12. ASSUME NEW r \in Requests, Ma!Ask(r) \/ Ma!DeleteReads(r)
       PROVE  UNCHANGED <<version, stored, memory, ceiling, lost>>
  BY <1>12 DEF Ma!Ask, Ma!DeleteReads, Ma!history
<1>13. UNCHANGED Ma!vars \/ Ma!RunReads => UNCHANGED <<version, stored, memory, ceiling, lost>>
  BY DEF Ma!vars, Ma!history, Ma!RunReads
<1>14. CASE UNCHANGED <<version, stored, memory, ceiling, lost>>
  BY <1>1, <1>14 DEF InStep
<1> QED BY <1>3, <1>4, <1>5, <1>6, <1>7, <1>8, <1>9, <1>10, <1>11, <1>12, <1>13, <1>14 DEF Ma!Next, Ma!Task

\* The histories only grow.
LEMMA Grows ==
    ASSUME MakingTyped, [Ma!Next]_(Ma!vars)
    PROVE  version' = version /\ (~lost' => ~lost) /\ uncertain \subseteq uncertain' /\ released \subseteq released'
<1>1. CASE UNCHANGED Ma!vars
  BY <1>1 DEF Ma!vars, Ma!history
<1>2. ASSUME NEW s \in Ma!Slots, Ma!Task(s)
      PROVE  version' = version /\ (~lost' => ~lost) /\ uncertain \subseteq uncertain' /\ released \subseteq released'
  <2>1. CASE Ma!SendV1(s)
    BY <2>1 DEF Ma!SendV1, Ma!Overwrite
  <2>2. CASE Ma!Pause(s)
    BY <2>2 DEF Ma!Pause, Ma!Overwrite
  <2>3. CASE Ma!Forget(s)
    BY <2>3 DEF Ma!Forget, Ma!Overwrite
  <2>4. CASE Ma!SendFails(s) \/ Ma!MarketClosed(s)
    BY <2>4 DEF Ma!SendFails, Ma!MarketClosed
  <2>5. CASE Ma!List(s) \/ Ma!ListFails(s) \/ Ma!NotDue(s) \/ Ma!Choose(s) \/ Ma!NothingToDo(s) \/ Ma!Paused(s) \/ Ma!SendV2(s)
             \/ Ma!ForgetReads(s)
    <3>1. UNCHANGED <<version, lost, uncertain, released>>
      BY <2>5 DEF Ma!List, Ma!ListFails, Ma!NotDue, Ma!Choose, Ma!NothingToDo, Ma!Paused, Ma!SendV2, Ma!ForgetReads, Ma!history
    <3> QED BY <3>1
  <2> QED BY <1>2, <2>1, <2>2, <2>3, <2>4, <2>5 DEF Ma!Task
<1>3. ASSUME NEW r \in Requests, Ma!Ask(r) \/ Ma!AddV1(r) \/ Ma!AddV2(r) \/ Ma!UpdateV1(r) \/ Ma!UpdateV2(r)
                                 \/ Ma!DeleteReads(r) \/ Ma!Delete(r)
      PROVE  version' = version /\ (~lost' => ~lost) /\ uncertain \subseteq uncertain' /\ released \subseteq released'
  <2>1. CASE Ma!Ask(r) \/ Ma!DeleteReads(r)
    <3>1. UNCHANGED <<version, lost, uncertain, released>>
      BY <2>1 DEF Ma!Ask, Ma!DeleteReads, Ma!history
    <3> QED BY <3>1
  <2>2. CASE Ma!Delete(r)
    BY <2>2 DEF Ma!Delete, Ma!Overwrite
  <2>3. CASE Ma!AddV1(r) \/ Ma!AddV2(r)
    BY <2>3 DEF Ma!AddV1, Ma!AddV2, Ma!AddEntry, Ma!Overwrite
  <2>4. CASE Ma!UpdateV1(r) \/ Ma!UpdateV2(r)
    <3>1. PICK new : Ma!UpdateEntry(r, new)
      BY <2>4 DEF Ma!UpdateV1, Ma!UpdateV2
    <3> QED BY <3>1 DEF Ma!UpdateEntry, Ma!Overwrite
  <2> QED BY <1>3, <2>1, <2>2, <2>3, <2>4
<1>4. CASE Ma!RunReads
  BY <1>4 DEF Ma!RunReads, Ma!history
<1>5. CASE Ma!RunStarts
  BY <1>5 DEF Ma!RunStarts
<1>6. CASE Ma!Crash
  BY <1>6 DEF Ma!Crash
<1> QED BY <1>1, <1>2, <1>3, <1>4, <1>5, <1>6 DEF Ma!Next, Ma!Task

\* A step that changes nothing of an event keeps its account.
LEMMA Kept ==
    ASSUME NEW e \in Events, Accounted(e), stored'[e] = stored[e], Ma!Has(memory, e) => Ma!Has(memory', e),
           spent'[e] = spent[e], ceiling'[e] = ceiling[e], Ma!Busy(e)' \subseteq Ma!Busy(e),
           \A t \in Ma!Busy(e)' : task'[t].at = "send" =>
               task[t].at = "send" /\ task'[t].invested = task[t].invested
    PROVE  Accounted(e)'
BY DEF Accounted, Ma!Has

\* A task's step changes nothing of another event.
LEMMA OthersKept ==
    ASSUME MakingTyped, CopiesFit, InStep, version = "v1", ~lost', ~lost, NEW s \in Ma!Slots, Ma!Task(s),
           NEW e \in Events, e # s[1], Accounted(e)
    PROVE  Accounted(e)'
<1>1. s[1] \in Events
  BY SlotEvent
<1>2. InStepFor(e) /\ stored \in Registers /\ memory \in Registers
  BY DEF InStep, MakingTyped, RegistersTyped
<1>3. stored'[e] = stored[e] /\ (Ma!Has(memory, e) => Ma!Has(memory', e)) /\ spent'[e] = spent[e] /\ ceiling'[e] = ceiling[e]
  <2>1. ASSUME NEW x, Ma!Overwrite(memory, Ma!Put(memory, s[1], x)), memory' = Ma!Put(memory, s[1], x)
        PROVE  stored'[e] = stored[e] /\ memory'[e] = memory[e]
    <3>1. memory = stored /\ stored' = Ma!Put(memory, s[1], x)
      BY <2>1, NoLoss
    <3>2. Ma!Put(memory, s[1], x)[e] = memory[e]
      BY <1>2 DEF Ma!Put, Registers
    <3> QED BY <2>1, <3>1, <3>2
  <2>2. CASE Ma!SendV1(s)
    <3>1. spent'[e] = spent[e] /\ ceiling' = ceiling
      BY <2>2, <1>1 DEF Ma!SendV1, Ma!Placed, MakingTyped, NumbersTyped
    <3>2. CASE Ma!Has(memory, s[1])
      BY <2>1, <2>2, <3>1, <3>2 DEF Ma!SendV1, Ma!Has
    <3>3. CASE ~Ma!Has(memory, s[1])
      BY <2>2, <3>1, <3>3 DEF Ma!SendV1, Ma!Has
    <3> QED BY <3>2, <3>3
  <2>3. CASE Ma!Pause(s)
    <3>1. spent' = spent /\ ceiling' = ceiling
      BY <2>3 DEF Ma!Pause
    <3>2. CASE Ma!Has(memory, s[1])
      BY <2>1, <2>3, <3>1, <3>2 DEF Ma!Pause, Ma!Has
    <3>3. CASE ~Ma!Has(memory, s[1])
      BY <2>3, <3>1, <3>3 DEF Ma!Pause, Ma!Has
    <3> QED BY <3>2, <3>3
  <2>4. CASE Ma!Forget(s)
    <3>1. /\ memory' = Ma!Put(task[s].copy, s[1], None) /\ Ma!Overwrite(task[s].copy, memory')
          /\ spent' = spent /\ ceiling' = ceiling
      BY <2>4 DEF Ma!Forget, Ma!Without
    <3>2. memory' = Ma!Put(stored, s[1], None) /\ stored' = Ma!Put(stored, s[1], None)
      BY <3>1, NoLoss
    <3>3. Ma!Put(stored, s[1], None)[e] = stored[e]
      BY <1>1, <1>2, PutIs
    <3> QED BY <1>2, <3>1, <3>2, <3>3 DEF InStepFor, Ma!Has
  <2>5. CASE Ma!SendFails(s)
    BY <2>5, <1>1 DEF Ma!SendFails, Ma!Placed, Ma!Has, MakingTyped, NumbersTyped
  <2>6. CASE Ma!List(s) \/ Ma!ListFails(s) \/ Ma!NotDue(s) \/ Ma!Choose(s) \/ Ma!NothingToDo(s) \/ Ma!Paused(s) \/ Ma!SendV2(s)
             \/ Ma!MarketClosed(s) \/ Ma!ForgetReads(s)
    BY <2>6 DEF Ma!List, Ma!ListFails, Ma!NotDue, Ma!Choose, Ma!NothingToDo, Ma!Paused, Ma!SendV2, Ma!MarketClosed, Ma!ForgetReads,
                Ma!history, Ma!Has
  <2> QED BY <2>2, <2>3, <2>4, <2>5, <2>6 DEF Ma!Task
<1>4. Ma!Busy(e)' = Ma!Busy(e)
  BY BusyChange
<1>5. \A t \in Ma!Busy(e) : task'[t] = task[t]
  BY TaskChange DEF Ma!Busy
<1> QED BY <1>3, <1>4, <1>5, Kept

\* A task's step keeps the account of its own event.
LEMMA OwnAccount ==
    ASSUME MakingTyped, CopiesFit, OneTask, InStep, version = "v1", ~lost', ~lost, NEW s \in Ma!Slots, Ma!Task(s),
           NEW e \in Events, e = s[1], e \notin uncertain', e \notin released', e \notin released, Accounted(e)
    PROVE  Accounted(e)'
<1>1. Ma!Busy(e) = {s} /\ Ma!Busy(e)' \subseteq {s}
  BY BusyChange DEF OneTask
<1>2. InStepFor(e) /\ Ma!Has(memory, e) /\ Ma!Has(stored, e) /\ stored[e] \in Ma!Entry /\ memory[e] \in Ma!Entry
  BY <1>1, EntryOf DEF InStep, InStepFor, Accounted, MakingTyped, RegistersTyped
<1>3. /\ stored[e].invested \in Nat /\ memory[e].invested = stored[e].invested
      /\ memory[e].limit \in Nat /\ memory[e].limit <= ceiling[e]
      /\ spent \in [Events -> 0 .. MaxSpent] /\ spent[e] \in Nat /\ ceiling[e] \in Nat
  BY <1>2, EntryFields, MatchMakingAssumption DEF InStepFor, MakingTyped, NumbersTyped
<1>4. spent[e] <= ceiling[e] /\ spent[e] <= stored[e].invested
  BY <1>2 DEF Accounted
<1>5. CASE Ma!List(s) \/ Ma!ListFails(s) \/ Ma!NotDue(s) \/ Ma!NothingToDo(s) \/ Ma!Paused(s) \/ Ma!ForgetReads(s)
  <2>1. UNCHANGED <<stored, memory, spent, ceiling>>
    BY <1>5 DEF Ma!List, Ma!ListFails, Ma!NotDue, Ma!NothingToDo, Ma!Paused, Ma!ForgetReads, Ma!history
  <2>2. task'[s].at # "send"
    BY <1>5, TaskPlace
  <2> QED BY <1>1, <2>1, <2>2, Kept
<1>6. CASE Ma!Choose(s)
  <2>1. UNCHANGED <<stored, memory, spent, ceiling>> /\ memory[e].invested + 1 <= memory[e].limit
    BY <1>6 DEF Ma!Choose, Ma!history
  <2>2. task'[s].invested = stored[e].invested + 1 /\ task'[s].invested <= ceiling[e]
    BY <1>3, <1>6, <2>1, TaskPlace
  <2> QED BY <1>1, <1>2, <1>4, <2>1, <2>2 DEF Accounted, Ma!Has
<1>7. CASE Ma!SendV1(s)
  <2>1. /\ memory' = Ma!Put(memory, e, [memory[e] EXCEPT !.invested = task[s].invested])
        /\ Ma!Overwrite(memory, memory') /\ ceiling' = ceiling /\ Ma!At(s, "send")
        /\ spent' = [spent EXCEPT ![e] = spent[e] + 1]
    BY <1>2, <1>7 DEF Ma!SendV1, Ma!Placed
  <2>2. memory = stored /\ stored' = memory'
    BY <2>1, NoLoss
  <2>3. task[s].invested = stored[e].invested + 1 /\ task[s].invested <= ceiling[e] /\ task[s].invested \in Nat
    BY <1>1, <1>3, <2>1 DEF Accounted, Ma!At
  <2>4. /\ [memory[e] EXCEPT !.invested = task[s].invested] \in Ma!Entry
        /\ [memory[e] EXCEPT !.invested = task[s].invested].invested = task[s].invested
    <3>1. memory[e] \in Ma!Entry /\ task[s].invested \in Nat
      BY <1>2, <2>3
    <3> QED BY <3>1, EntryInvested
  <2>5. memory \in Registers
    BY DEF MakingTyped, RegistersTyped
  <2>6. PICK x \in Ma!Entry : memory' = Ma!Put(memory, e, x) /\ x.invested = task[s].invested
    BY <2>1, <2>4
  <2>7. stored'[e] = x /\ memory'[e] = x /\ x # None
    BY <2>2, <2>5, <2>6, PutIs, EntryFields
  <2>8. spent'[e] = spent[e] + 1
    BY <1>3, <2>1
  <2>9. task'[s].at = "process"
    BY <1>2, <1>7, TaskPlace
  <2>10. spent'[e] <= task[s].invested /\ spent'[e] <= ceiling'[e]
    BY <1>3, <1>4, <2>1, <2>3, <2>8
  <2> QED BY <1>1, <2>6, <2>7, <2>9, <2>10 DEF Accounted, Ma!Has
<1>8. CASE Ma!SendV2(s)
  BY <1>8 DEF Ma!SendV2
<1>9. CASE Ma!SendFails(s)
  <2>1. UNCHANGED <<stored, memory, spent, ceiling>>
    BY <1>9 DEF Ma!SendFails
  <2>2. task'[s].at # "send"
    BY <1>9, TaskPlace
  <2> QED BY <1>1, <2>1, <2>2, Kept
<1>10. CASE Ma!MarketClosed(s)
  BY <1>10 DEF Ma!MarketClosed
<1>11. CASE Ma!Pause(s)
  BY <1>2, <1>11 DEF Ma!Pause
<1>12. CASE Ma!Forget(s)
  <2>1. /\ memory' = Ma!Put(task[s].copy, e, None) /\ Ma!Overwrite(task[s].copy, memory')
        /\ spent' = spent /\ ceiling' = ceiling
    BY <1>12 DEF Ma!Forget, Ma!Without
  <2>2. stored' = Ma!Put(stored, e, None)
    BY <2>1, NoLoss
  <2>3. stored'[e] = None
    BY <2>2, PutIs DEF MakingTyped, RegistersTyped
  <2>4. Ma!Busy(e)' = {}
    BY <1>1, <1>12, TaskPlace, BusyChange
  <2> QED BY <1>4, <2>1, <2>3, <2>4 DEF Accounted, Ma!Has
<1> QED BY <1>5, <1>6, <1>7, <1>8, <1>9, <1>10, <1>11, <1>12 DEF Ma!Task

\* An account is kept by every step: the one task of an event writes what it spends.
LEMMA MakingAccountStep ==
    ASSUME MakingTyped, CopiesFit, OneTask, InStep, AllAccounted, [Ma!Next]_(Ma!vars)
    PROVE  AllAccounted'
<1> SUFFICES ASSUME version' = "v1", ~lost', NEW e \in Events, e \notin uncertain', e \notin released'
             PROVE  Accounted(e)'
  BY DEF AllAccounted
<1>1. version = "v1" /\ ~lost /\ e \notin uncertain /\ e \notin released
  BY Grows
<1>2. Accounted(e) /\ InStepFor(e)
  BY <1>1 DEF AllAccounted, InStep
<1>3. /\ Ma!Has(stored, e) => stored[e] \in Ma!Entry
      /\ stored \in Registers /\ memory \in Registers /\ ceiling \in [Events -> Nat]
      /\ spent \in [Events -> Nat]
  BY EntryOf, MatchMakingAssumption DEF MakingTyped, RegistersTyped, NumbersTyped
<1>4. CASE UNCHANGED <<stored, memory, spent, ceiling, task>>
  BY <1>2, <1>4, Kept DEF Ma!Busy
<1>5. CASE UNCHANGED Ma!vars \/ Ma!RunReads
  BY <1>4, <1>5 DEF Ma!vars, Ma!history, Ma!RunReads
<1>6. ASSUME NEW s \in Ma!Slots, Ma!Task(s) PROVE Accounted(e)'
  BY <1>1, <1>2, <1>6, OthersKept, OwnAccount
<1>7. ASSUME NEW r \in Requests, Ma!Ask(r) \/ Ma!DeleteReads(r) PROVE Accounted(e)'
  BY <1>4, <1>7 DEF Ma!Ask, Ma!DeleteReads, Ma!history
<1>8. ASSUME NEW r \in Requests, Ma!AddV1(r) \/ Ma!AddV2(r) PROVE Accounted(e)'
  <2>1. PICK l \in Limits : Ma!AddEntry(r, l)
    BY <1>8, Written
  <2> DEFINE f == request[r].event
             x == [on |-> TRUE, limit |-> l, invested |-> 0]
  <2>2. /\ Ma!Overwrite(request[r].copy, Ma!Put(request[r].copy, f, x)) /\ memory' = memory /\ task' = task
        /\ ceiling' = [ceiling EXCEPT ![f] = l] /\ spent' = [spent EXCEPT ![f] = 0]
    BY <2>1 DEF Ma!AddEntry
  <2>3. request[r].copy = stored /\ stored' = Ma!Put(stored, f, x) /\ f \in Events
    BY <2>2, NoLoss, Written
  <2>4. ~Ma!Has(stored, f) /\ x \in Ma!Entry /\ l \in Nat
    BY <1>8, <2>3, Written, MatchMakingAssumption DEF Ma!Entry
  <2>5. /\ stored'[f] = x /\ ceiling'[f] = l /\ spent'[f] = 0
        /\ e # f => stored'[e] = stored[e] /\ ceiling'[e] = ceiling[e] /\ spent'[e] = spent[e]
    BY <1>3, <2>2, <2>3, <2>4, PutIs
  <2>6. Ma!Busy(e)' = Ma!Busy(e)
    BY <2>2 DEF Ma!Busy
  <2>7. CASE e = f
    <3>1. Ma!Busy(e) = {}
      BY <1>2, <2>4, <2>7 DEF Accounted, InStepFor
    <3>2. spent'[e] = 0 /\ ceiling'[e] \in Nat /\ stored'[e].invested = 0
      BY <2>4, <2>5, <2>7
    <3> QED BY <2>6, <3>1, <3>2 DEF Accounted
  <2>8. CASE e # f
    BY <1>2, <2>2, <2>5, <2>6, <2>8, Kept DEF Ma!Has
  <2> QED BY <2>7, <2>8
<1>9. ASSUME NEW r \in Requests, Ma!UpdateV1(r) \/ Ma!UpdateV2(r) PROVE Accounted(e)'
  <2>1. PICK new \in Ma!Entry : new.invested = Ma!Mine(r).invested /\ Ma!UpdateEntry(r, new)
    BY <1>9, Written
  <2> DEFINE f == request[r].event
  <2>2. /\ Ma!Overwrite(request[r].copy, Ma!Put(request[r].copy, f, new))
        /\ memory' = memory /\ task' = task /\ spent' = spent
        /\ ceiling' = [ceiling EXCEPT ![f] = IF new.limit > ceiling[f] THEN new.limit ELSE ceiling[f]]
    BY <2>1 DEF Ma!UpdateEntry
  <2>3. request[r].copy = stored /\ stored' = Ma!Put(stored, f, new) /\ f \in Events
    BY <2>2, NoLoss, Written
  <2>4. Ma!Mine(r) = stored[f] /\ Ma!Mine(r) \in Ma!Entry /\ new.limit \in Nat /\ new # None /\ Ma!Mine(r) # None
    BY <1>9, <2>3, Written, EntryFields DEF Ma!Mine
  <2>5. /\ stored'[f] = new /\ ceiling'[f] = IF new.limit > ceiling[f] THEN new.limit ELSE ceiling[f]
        /\ e # f => stored'[e] = stored[e] /\ ceiling'[e] = ceiling[e]
    BY <1>3, <2>2, <2>3, <2>4, PutIs
  <2>6. Ma!Busy(e)' = Ma!Busy(e)
    BY <2>2 DEF Ma!Busy
  <2>7. CASE e = f
    <3>1. stored'[e].invested = stored[e].invested /\ Ma!Has(stored, e)
      BY <2>1, <2>4, <2>5, <2>7 DEF Ma!Has
    <3>2. ceiling[e] <= ceiling'[e] /\ ceiling[e] \in Nat /\ ceiling'[e] \in Nat /\ spent[e] \in Nat
      BY <1>3, <2>4, <2>5, <2>7
    <3>3. \A t \in Ma!Busy(e) : t \in Ma!Slots /\ task[t].invested \in Nat
      BY DEF Ma!Busy, MakingTyped, TasksTyped, Tasks
    <3>4. spent[e] <= ceiling'[e]
      BY <1>2, <3>2 DEF Accounted
    <3>5. \A t \in Ma!Busy(e) : task[t].at = "send" => task[t].invested <= ceiling'[e]
      BY <1>2, <3>2, <3>3 DEF Accounted
    <3> QED BY <1>2, <2>2, <2>6, <3>1, <3>4, <3>5 DEF Accounted, Ma!Has
  <2>8. CASE e # f
    BY <1>2, <2>2, <2>5, <2>6, <2>8, Kept DEF Ma!Has
  <2> QED BY <2>7, <2>8
<1>10. ASSUME NEW r \in Requests, Ma!Delete(r) PROVE Accounted(e)'
  <2> DEFINE f == request[r].event
  <2>1. /\ memory' = Ma!Put(request[r].copy, f, None) /\ Ma!Overwrite(request[r].copy, memory')
        /\ task' = task /\ spent' = spent /\ ceiling' = ceiling
        /\ released' = released \union {x \in {f} : Ma!Busy(f) # {}}
    BY <1>10 DEF Ma!Delete, Ma!Without
  <2>2. stored' = Ma!Put(stored, f, None) /\ memory' = Ma!Put(stored, f, None) /\ f \in Events
    BY <2>1, NoLoss, Written
  <2>3. stored'[f] = None /\ (e # f => stored'[e] = stored[e] /\ memory'[e] = stored[e])
    BY <1>3, <2>2, PutIs
  <2>4. Ma!Busy(e)' = Ma!Busy(e)
    BY <2>1 DEF Ma!Busy
  <2>5. CASE e = f
    <3>1. Ma!Busy(e) = {}
      BY <2>1, <2>5
    <3> QED BY <1>2, <2>1, <2>3, <2>4, <2>5, <3>1 DEF Accounted, Ma!Has
  <2>6. CASE e # f
    BY <1>2, <2>1, <2>3, <2>4, <2>6, Kept DEF InStepFor, Ma!Has
  <2> QED BY <2>5, <2>6
<1>11. CASE Ma!RunStarts
  <2>1. memory' = cron /\ cron = stored /\ stored' = stored /\ spent' = spent /\ ceiling' = ceiling
    BY <1>1, <1>11 DEF Ma!RunStarts
  <2>2. \A t \in Ma!Slots : task'[t] = task[t] \/ task'[t].at = "list"
    BY <1>11, Started
  <2>3. \A t \in Ma!Busy(e)' : task'[t].at = "send" => t \in Ma!Busy(e) /\ task'[t] = task[t]
    BY <2>2 DEF Ma!Busy
  <2>4. CASE e \in Ma!Due
    BY <1>2, <2>1, <2>3, <2>4 DEF Accounted, Ma!Due, Ma!Has
  <2>5. CASE e \notin Ma!Due
    BY <1>2, <1>11, <2>1, <2>3, <2>5, Started DEF Accounted, InStepFor, Ma!Has
  <2> QED BY <2>4, <2>5
<1>12. CASE Ma!Crash
  <2>1. stored' = stored /\ ceiling' = ceiling /\ Ma!Busy(e)' = {}
    BY <1>12 DEF Ma!Crash, Ma!Free, Ma!Busy
  <2>2. spent'[e] = spent[e]
    BY <1>12 DEF Ma!Crash
  <2> QED BY <1>2, <2>1, <2>2 DEF Accounted, Ma!Has
<1> QED BY <1>5, <1>6, <1>7, <1>8, <1>9, <1>10, <1>11, <1>12 DEF Ma!Next, Ma!Task

-------------------------------------------------------------------------------
(* Theorems *)

MakingInv == MakingTyped /\ CopiesFit /\ OneTask /\ InStep /\ AllAccounted

\* The invariant holds.
LEMMA MakingInvariant == Ma!Spec => []MakingInv
<1>1. Ma!Init => MakingInv
  <2> SUFFICES ASSUME Ma!Init PROVE MakingInv
    OBVIOUS
  <2>1. MakingTyped
    <3>1. RegistersTyped
      BY DEF Ma!Init, Ma!Empty, RegistersTyped, Registers
    <3>2. TasksTyped
      BY DEF Ma!Init, Ma!Free, TasksTyped, Tasks, MakingPlaces
    <3>3. MakingRequestsTyped
      BY DEF Ma!Init, MakingRequestsTyped, Asked
    <3>4. NumbersTyped
      <4>1. spent \in [Events -> 0 .. MaxSpent] /\ ceiling \in [Events -> Nat]
        BY MatchMakingAssumption DEF Ma!Init
      <4>2. lost \in BOOLEAN /\ version \in {"v1", "v2"}
        BY DEF Ma!Init
      <4> QED BY <4>1, <4>2 DEF Ma!Init, NumbersTyped
    <3> QED BY <3>1, <3>2, <3>3, <3>4 DEF MakingTyped
  <2>2. (\A s \in Ma!Slots : task[s].at = "free") /\ \A r \in Requests : request[r].at = "idle"
    BY DEF Ma!Init, Ma!Free
  <2>3. \A e \in Events : Ma!Busy(e) = {} /\ ~Ma!Has(stored, e) /\ ~Ma!Has(memory, e) /\ spent[e] = 0 /\ ceiling[e] = 0
    BY <2>2 DEF Ma!Init, Ma!Busy, Ma!Has, Ma!Empty
  <2>4. CopiesFit
    BY <2>2 DEF CopiesFit
  <2>5. OneTask /\ InStep /\ AllAccounted
    BY <2>3 DEF OneTask, InStep, InStepFor, AllAccounted, Accounted
  <2> QED BY <2>1, <2>4, <2>5 DEF MakingInv
<1>2. MakingInv /\ [Ma!Next]_(Ma!vars) => MakingInv'
  BY MakingFits, OneTaskStep, InStepStep, MakingAccountStep DEF MakingInv
<1> QED BY <1>1, <1>2, PTL DEF Ma!Spec

\* Every variable of the market makers has its type.
LEMMA MakingTypes == Ma!Spec => []Ma!TypeOK
<1>1. MakingInv => Ma!TypeOK
  BY DEF MakingInv, MakingTyped, RegistersTyped, TasksTyped, MakingRequestsTyped, NumbersTyped, Registers, Tasks,
         MakingPlaces, Asked, Ma!TypeOK
<1> QED BY <1>1, MakingInvariant, PTL

\* For any events, requests and limits: the market maker v1 stays within the highest
\* limit, and an event has one task, but for the losses the histories name.
LEMMA InvestmentKept == Ma!Spec => []Ma!InvestmentBounded
<1>1. MakingInv => Ma!InvestmentBounded
  <2> SUFFICES ASSUME MakingInv PROVE Ma!InvestmentBounded
    OBVIOUS
  <2>1. Ma!WithinInvestmentLimit
    <3> SUFFICES ASSUME version = "v1", ~lost, NEW e \in Events, spent[e] > ceiling[e],
                        e \notin uncertain \union released
                 PROVE  FALSE
      BY DEF Ma!WithinInvestmentLimit
    <3>1. spent[e] <= ceiling[e]
      BY DEF MakingInv, AllAccounted, Accounted
    <3>2. spent[e] \in Nat /\ ceiling[e] \in Nat
      BY MatchMakingAssumption DEF MakingInv, MakingTyped, NumbersTyped
    <3> QED BY <3>1, <3>2
  <2>2. Ma!OneTaskPerEvent
    <3> SUFFICES ASSUME NEW e \in Events, e \notin released PROVE ~(Cardinality(Ma!Busy(e)) > 1)
      BY MakingCardinality DEF Ma!OneTaskPerEvent
    <3>1. \A s, t \in Ma!Busy(e) : s = t
      BY DEF MakingInv, OneTask
    <3>2. Ma!Busy(e) = {} \/ \E s : Ma!Busy(e) = {s}
      BY <3>1
    <3>3. Cardinality({}) = 0 /\ \A s : Cardinality({s}) = 1
      BY FS_EmptySet, FS_Singleton
    <3>4. Cardinality(Ma!Busy(e)) \in {0, 1}
      BY <3>2, <3>3
    <3> QED BY <3>4
  <2> QED BY <2>1, <2>2 DEF Ma!InvestmentBounded
<1> QED BY <1>1, MakingInvariant, PTL

-------------------------------------------------------------------------------
(* THE PARTS.  A behaviour of the module that composes the five is one of    *)
(* the part it begins with, in which the other parts' variables stay None.   *)

LEMMA TradeIsPart ==
    /\ Init => (part = "trade" => Tr!Init)
    /\ [Next]_vars => ((part = "trade")' <=> part = "trade")
    /\ part = "trade" /\ [Next]_vars => [Tr!Next]_(Tr!vars)
BY DEF Init, Next, vars, Tr!vars, Tr!event, Tr!market, Tr!history,
       ofTrade, ofTradeAndPrices, ofTradeAndBank, ofTradeAndPricesAndSignInAndBank,
       ofTradeAndMaking, ofPrices, ofPricesAndSignInAndBank, ofPricesAndBank, ofSignIn,
       ofSignInAndBank, ofBank, ofMaking

LEMMA PricesIsPart ==
    /\ Init => (part = "prices" => Pr!Init)
    /\ [Next]_vars => ((part = "prices")' <=> part = "prices")
    /\ part = "prices" /\ [Next]_vars => [Pr!Next]_(Pr!vars)
BY DEF Init, Next, vars, Pr!vars, Pr!request,
       ofTrade, ofTradeAndPrices, ofTradeAndBank, ofTradeAndPricesAndSignInAndBank,
       ofTradeAndMaking, ofPrices, ofPricesAndSignInAndBank, ofPricesAndBank, ofSignIn,
       ofSignInAndBank, ofBank, ofMaking

LEMMA SignInIsPart ==
    /\ Init => (part = "signIn" => Si!Init)
    /\ [Next]_vars => ((part = "signIn")' <=> part = "signIn")
    /\ part = "signIn" /\ [Next]_vars => [Si!Next]_(Si!vars)
BY DEF Init, Next, vars, Si!vars, Si!rows, Si!history,
       ofTrade, ofTradeAndPrices, ofTradeAndBank, ofTradeAndPricesAndSignInAndBank,
       ofTradeAndMaking, ofPrices, ofPricesAndSignInAndBank, ofPricesAndBank, ofSignIn,
       ofSignInAndBank, ofBank, ofMaking

LEMMA BankIsPart ==
    /\ Init => (part = "bank" => Ba!Init)
    /\ [Next]_vars => ((part = "bank")' <=> part = "bank")
    /\ part = "bank" /\ [Next]_vars => [Ba!Next]_(Ba!vars)
BY DEF Init, Next, vars, Ba!vars, Ba!globals, Ba!stores,
       ofTrade, ofTradeAndPrices, ofTradeAndBank, ofTradeAndPricesAndSignInAndBank,
       ofTradeAndMaking, ofPrices, ofPricesAndSignInAndBank, ofPricesAndBank, ofSignIn,
       ofSignInAndBank, ofBank, ofMaking

LEMMA MakingIsPart ==
    /\ Init => (part = "making" => Ma!Init)
    /\ [Next]_vars => ((part = "making")' <=> part = "making")
    /\ part = "making" /\ [Next]_vars => [Ma!Next]_(Ma!vars)
BY DEF Init, Next, vars, Ma!vars, Ma!history,
       ofTrade, ofTradeAndPrices, ofTradeAndBank, ofTradeAndPricesAndSignInAndBank,
       ofTradeAndMaking, ofPrices, ofPricesAndSignInAndBank, ofPricesAndBank, ofSignIn,
       ofSignInAndBank, ofBank, ofMaking

\* The checks of putCall bound what a user does wherever the key does its work: an
\* event whose key was not lost keeps its limits, requests never at work on two events
\* at a time keep the number of private events, and money and shares that were checked
\* are still there when the engine takes the order.
THEOREM OrdersAllHold == (Tr!Spec => []Tr!OrdersHold) /\ (Spec => []OrdersHold)
BY OrdersKept, TradeIsPart, PTL DEF Spec, Tr!Spec, OrdersHold

\* The prices a user is quoted are those of the book, or their difference is one of
\* the named ones, for any sets of open orders.
THEOREM QuotesAreHeld == (Pr!Spec => []Pr!QuotesHold) /\ (Spec => []QuotesHold)
BY QuotesKept, PricesIsPart, PTL DEF Spec, Pr!Spec, QuotesHold

\* One person signs up once, but in the named circumstances, whatever requests to send
\* and to verify a code overlap, fail or run out of their lock.
THEOREM SignedUpHolds == (Si!Spec => []Si!SignedUpOnce) /\ (Spec => []SignedUpOnce)
BY SignedUp, SignInIsPart, PTL DEF Spec, Si!Spec, SignedUpOnce

\* A code is compared no more often than the attempts allow, and not after its use,
\* but in the named circumstances.
THEOREM CodeSafe == (Si!Spec => []Si!CodeHolds) /\ (Spec => []CodeHolds)
BY CodeKept, SignInIsPart, PTL DEF Spec, Si!Spec, CodeHolds

\* The bank details of the table are those of the gateway, and those of kyc agree, when
\* no request is under way and no named circumstance came in between.
THEOREM DetailsHold == (Ba!Spec => []Ba!DetailsAgree) /\ (Spec => []DetailsAgree)
BY DetailsKept, BankIsPart, PTL DEF Spec, Ba!Spec, DetailsAgree

\* What a market maker has invested in an event stays within its limit, and what the
\* register says of it is what was spent, but in the named circumstances.
THEOREM InvestmentHolds == (Ma!Spec => []Ma!InvestmentBounded) /\ (Spec => []InvestmentBounded)
BY InvestmentKept, MakingIsPart, PTL DEF Spec, Ma!Spec, InvestmentBounded

\* The variables of Prices keep their types.
THEOREM PricesTypeCorrect == Pr!Spec => []Pr!TypeOK
BY PricesTypes, PTL

\* The variables of SignIn keep their types.
THEOREM SignInTypeCorrect == Si!Spec => []Si!TypeOK
BY SignInTypes, PTL

\* The variables of BankDetails keep their types.
THEOREM BankTypeCorrect == Ba!Spec => []Ba!TypeOK
BY BankTypes, PTL

\* The variables of MatchMaking keep their types.
THEOREM MakingTypeCorrect == Ma!Spec => []Ma!TypeOK
BY MakingTypes, PTL
===============================================================================

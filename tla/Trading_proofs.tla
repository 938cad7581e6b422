----------------------------- MODULE Trading_proofs -----------------------------
(***************************************************************************)
(* Proofs about market makers and liquidity providers, for any requests,   *)
(* users, events, calls and orders.  MCTrading has the instances: Pa for   *)
(* MakerPage, Mk for MarketMaking, Li for Liquidity.  The theorems at the  *)
(* end are about each and about the module that composes them.             *)
(***************************************************************************)
EXTENDS MCTrading, TLAPS, Sums, Sequences, FiniteSetTheorems

-------------------------------------------------------------------------------
(* MARKET.  A bulk of one order that met no other bulk is covered because    *)
(* between its check and its orders there is no other one (BulksAreCovered). *)
(* A cancellation waits for its own order because the key is the request's   *)
(* until the engine has taken the message, or its loss is on record          *)
(* (CancelsAreWaitedFor).                                                    *)

Message == [by : Requests, cancels : Mk!Order \union {None}]

MarketTyped ==
    /\ Mk!TypeOK
    /\ inbox \in Seq(Message)
    /\ listed \in [Requests -> SUBSET Mk!Order] /\ todo \in [Requests -> SUBSET Mk!Order]
    /\ unclear \subseteq Requests /\ several \subseteq Requests /\ freed \subseteq Requests
    /\ \A o \in open : o.id <= last
    /\ \A r \in Requests : \A o \in listed[r] : o.id <= last

\* The bulks whose funds were checked, and the places of those sent to the engine.
Pending == {r \in Requests : Mk!IsBulk(r) /\ pc[r] = "checked"}
Bulks == {i \in DOMAIN inbox : inbox[i].cancels = None}

BulksAreSent ==
    \A i \in Bulks : Mk!IsBulk(inbox[i].by) /\ pc[inbox[i].by] \in {"wait", "done"}

\* While every bulk had one order and met no other bulk, there is at most one between
\* its check and the engine, and the wallet has its coin.
BulksAreCovered ==
    unclear = {} =>
        /\ wallet >= 0
        /\ \A r, o \in Pending : r = o
        /\ \A i, j \in Bulks : i = j
        /\ Pending # {} => Bulks = {} /\ wallet >= 1
        /\ Bulks # {} => wallet >= 1
        /\ \A r \in Pending : size[r] = 1
        /\ \A i \in Bulks : size[inbox[i].by] = 1

\* The orders whose cancellation a request has sent
Sent(r) == listed[r] \ todo[r]

\* A cancellation in the engine's inbox is one its request has sent, the only one
\* unless it is known that there were several.
CancelsAreSent ==
    /\ \A r \in Requests : pc[r] \in {"idle", "guard", "set"} => listed[r] = {} /\ todo[r] = {}
    /\ \A i \in DOMAIN inbox :
          inbox[i].cancels # None =>
              /\ kind[inbox[i].by] = "cancelAll"
              /\ inbox[i].cancels \in Sent(inbox[i].by)
              /\ inbox[i].by \notin several => Sent(inbox[i].by) = {inbox[i].cancels}

\* What a request that sent one cancellation and whose key was not lost has sent is
\* cancelled once the key is gone.
WaitedFor(r) ==
    /\ pc[r] = "set" => key[0] = r
    /\ pc[r] = "checked" => (Sent(r) = {} /\ key[0] = r) \/ (Sent(r) # {} /\ Sent(r) \intersect open = {})
    /\ pc[r] = "sent" => Sent(r) # {} /\ (key[0] = r \/ Sent(r) \intersect open = {})
    /\ pc[r] = "done" => listed[r] \intersect open = {}

CancelsAreWaitedFor ==
    \A r \in Requests : kind[r] = "cancelAll" /\ r \notin several \union freed => WaitedFor(r)

MarketInv == MarketTyped /\ BulksAreSent /\ BulksAreCovered /\ CancelsAreSent /\ CancelsAreWaitedFor

USE DEF Mk!market, Mk!page, Mk!history, Mk!Handlers, Mk!Sides, Mk!Keys, Mk!Guarded, Mk!IsBulk

-------------------------------------------------------------------------------
(* What the steps change *)

\* Nothing of orders, bulks and cancellations but pc, key and freed.
MarketQuiet ==
    UNCHANGED <<kind, inbox, open, last, wallet, size, listed, todo, unclear, several>>

\* Steps about the guard and the page, by a request or by time.
MarketOther(r) ==
    \/ Mk!Guard(r) \/ Mk!Pass(r) \/ Mk!TakeKey(r) \/ Mk!RejectBulk(r) \/ Mk!BulkDone(r)
    \/ Mk!CancelSent(r) \/ Mk!CancelAllDone(r) \/ Mk!CancelAllFails(r) \/ Mk!OddsOrder(r)
    \/ Mk!Halt(r) \/ Mk!WriteScript(r) \/ Mk!DropCache(r) \/ Mk!Display(r) \/ Mk!CachePage(r)

MarketTime == Mk!KeyExpire \/ Mk!CacheExpire

\* The key of a request at work is kept or its loss is on record.
KeepsKey(r) ==
    \A q \in Requests :
        q # r /\ q \notin freed' /\ pc[q] \in Mk!Held /\ key[0] = q => key'[0] = q

\* Keys are None or a request's, and what was lost stays on record.
KeysKept ==
    /\ key' \in [Mk!Keys -> Requests \union {None}]
    /\ freed \subseteq freed' /\ freed' \subseteq Requests

Early == {"idle", "guard", "set"}
MarketPcs == {"idle", "guard", "set", "checked", "sent", "wait", "done", "failed"}

\* No step of these sends an order, or goes back.
Moves(r) ==
    \E s \in MarketPcs :
        /\ pc' = [pc EXCEPT ![r] = s]
        /\ Mk!IsBulk(r) => s # "checked" /\ (pc[r] \in {"wait", "done"} => s = "done")
        /\ s \in Early => pc[r] \in Early

OtherStep(r) == MarketQuiet /\ KeysKept /\ KeepsKey(r) /\ Moves(r)

LEMMA KeyZero == 0 \in Mk!Keys /\ \A r \in Requests : r # None
BY MarketAssumption

LEMMA DelKeyKeeps ==
    ASSUME MarketTyped, NEW k \in Mk!Keys, NEW r, Mk!DelKey(k, r)
    PROVE  KeysKept /\ KeepsKey(r)
<1>1. KeysKept
  BY DEF MarketTyped, Mk!TypeOK, Mk!DelKey, KeysKept
<1>2. KeepsKey(r)
  BY KeyZero DEF MarketTyped, Mk!TypeOK, Mk!DelKey, KeepsKey
<1> QED BY <1>1, <1>2

LEMMA SameKeyKeeps ==
    ASSUME MarketTyped, NEW r, UNCHANGED <<key, freed>>
    PROVE  KeysKept /\ KeepsKey(r)
BY DEF MarketTyped, Mk!TypeOK, KeysKept, KeepsKey

LEMMA OtherSteps ==
    ASSUME MarketTyped, NEW r \in Requests, MarketOther(r)
    PROVE  OtherStep(r)
<1> USE KeyZero, DelKeyKeeps, SameKeyKeeps DEF MarketQuiet, Moves, Mk!Step, OtherStep, Early, MarketPcs
<1>1. CASE Mk!Guard(r)
  BY <1>1 DEF Mk!Guard
<1>2. CASE Mk!Pass(r)
  BY <1>2 DEF Mk!Pass
<1>3. CASE Mk!TakeKey(r)
  <2>1. KeysKept /\ KeepsKey(r)
    BY <1>3 DEF Mk!TakeKey, Mk!SetKey, KeysKept, KeepsKey, MarketTyped, Mk!TypeOK
  <2> QED BY <1>3, <2>1 DEF Mk!TakeKey
<1>4. CASE Mk!RejectBulk(r)
  BY <1>4 DEF Mk!RejectBulk
<1>5. CASE Mk!BulkDone(r)
  BY <1>5 DEF Mk!BulkDone
<1>6. CASE Mk!CancelSent(r)
  BY <1>6 DEF Mk!CancelSent
<1>7. CASE Mk!CancelAllDone(r)
  BY <1>7 DEF Mk!CancelAllDone
<1>8. CASE Mk!CancelAllFails(r)
  BY <1>8 DEF Mk!CancelAllFails
<1>9. CASE Mk!OddsOrder(r)
  BY <1>9 DEF Mk!OddsOrder
<1>10. CASE Mk!Halt(r)
  BY <1>10 DEF Mk!Halt
<1>11. CASE Mk!WriteScript(r)
  BY <1>11 DEF Mk!WriteScript
<1>12. CASE Mk!DropCache(r)
  BY <1>12 DEF Mk!DropCache
<1>13. CASE Mk!Display(r)
  BY <1>13 DEF Mk!Display
<1>14. CASE Mk!CachePage(r)
  BY <1>14 DEF Mk!CachePage
<1> QED BY <1>1, <1>2, <1>3, <1>4, <1>5, <1>6, <1>7, <1>8, <1>9, <1>10, <1>11, <1>12, <1>13, <1>14
        DEF MarketOther

LEMMA TimeSteps ==
    ASSUME MarketTyped, MarketTime
    PROVE  MarketQuiet /\ KeysKept /\ KeepsKey(None) /\ pc' = pc
<1>1. CASE Mk!KeyExpire
  <2>1. PICK k \in Mk!Keys : Mk!DelKey(k, None)
    BY <1>1 DEF Mk!KeyExpire
  <2> QED BY <1>1, <2>1, DelKeyKeeps DEF Mk!KeyExpire, MarketQuiet
<1>2. CASE Mk!CacheExpire
  BY <1>2, SameKeyKeeps DEF Mk!CacheExpire, MarketQuiet
<1> QED BY <1>1, <1>2 DEF MarketTime

\* Every step is one of these.
LEMMA MarketNext ==
    ASSUME Mk!Next
    PROVE  \/ \E r \in Requests : MarketOther(r) \/ Mk!CheckFunds(r) \/ Mk!SendBulk(r)
                                  \/ Mk!ListOrders(r) \/ Mk!SendCancel(r)
           \/ Mk!Match \/ MarketTime
BY DEF Mk!Next, MarketOther, MarketTime

-------------------------------------------------------------------------------
(* The engine *)

LEMMA TailOfInbox ==
    ASSUME MarketTyped, inbox # <<>>, inbox' = Tail(inbox)
    PROVE  /\ 1 \in DOMAIN inbox /\ Head(inbox) = inbox[1] /\ inbox[1] \in Message
           /\ inbox' \in Seq(Message)
           /\ \A i \in DOMAIN inbox' : i + 1 \in DOMAIN inbox /\ inbox'[i] = inbox[i + 1]
<1>1. inbox \in Seq(Message)
  BY DEF MarketTyped
<1>2. Len(inbox) \in Nat \ {0} /\ DOMAIN inbox = 1 .. Len(inbox)
  BY <1>1
<1>3. Tail(inbox) \in Seq(Message) /\ DOMAIN Tail(inbox) = 1 .. Len(inbox) - 1
      /\ \A i \in 1 .. Len(inbox) - 1 : Tail(inbox)[i] = inbox[i + 1]
  BY <1>1
<1>4. \A i \in DOMAIN inbox' : i + 1 \in DOMAIN inbox /\ inbox'[i] = inbox[i + 1]
  BY <1>2, <1>3
<1>5. 1 \in DOMAIN inbox /\ Head(inbox) = inbox[1] /\ inbox[1] \in Message
  BY <1>1, <1>2
<1> QED BY <1>3, <1>4, <1>5

LEMMA AppendToInbox ==
    ASSUME MarketTyped, NEW m \in Message, inbox' = Append(inbox, m)
    PROVE  /\ inbox' \in Seq(Message)
           /\ \A i \in DOMAIN inbox' : (i \in DOMAIN inbox /\ inbox'[i] = inbox[i])
                                       \/ (i = Len(inbox) + 1 /\ i \notin DOMAIN inbox /\ inbox'[i] = m)
           /\ Len(inbox) + 1 \in DOMAIN inbox' /\ inbox'[Len(inbox) + 1] = m
<1>1. inbox \in Seq(Message)
  BY DEF MarketTyped
<1>2. Len(inbox) \in Nat /\ DOMAIN inbox = 1 .. Len(inbox)
  BY <1>1
<1>3. Append(inbox, m) \in Seq(Message) /\ DOMAIN Append(inbox, m) = 1 .. Len(inbox) + 1
      /\ Append(inbox, m)[Len(inbox) + 1] = m
      /\ \A i \in 1 .. Len(inbox) : Append(inbox, m)[i] = inbox[i]
  BY <1>1
<1> QED BY <1>2, <1>3

LEMMA MessageFields ==
    ASSUME NEW m \in Message
    PROVE  m.by \in Requests /\ m.cancels \in Mk!Order \union {None}
BY DEF Message

-------------------------------------------------------------------------------
(* Types *)

LEMMA MarketTypedInit == Mk!Init => MarketTyped
<1> SUFFICES ASSUME Mk!Init PROVE MarketTyped
  OBVIOUS
<1> USE MarketAssumption DEF Mk!Init
<1>1. Mk!TypeOK
  BY DEF Mk!TypeOK, Mk!Order
<1>2. inbox \in Seq(Message)
  OBVIOUS
<1>3. \A o \in open : o.id <= last
  OBVIOUS
<1> QED BY <1>1, <1>2, <1>3 DEF MarketTyped

LEMMA MarketTypedStep ==
    ASSUME MarketTyped, Mk!Next
    PROVE  MarketTyped'
<1>0. MarketTyped
  OBVIOUS
<1>1. ASSUME NEW r \in Requests, MarketOther(r) PROVE MarketTyped'
  <2>1. OtherStep(r)
    BY <1>1, OtherSteps
  <2> QED BY <1>0, <2>1 DEF OtherStep, MarketQuiet, KeysKept, Moves, MarketPcs, MarketTyped, Mk!TypeOK
<1>2. CASE MarketTime
  <2>1. MarketQuiet /\ KeysKept /\ pc' = pc
    BY <1>2, TimeSteps
  <2> QED BY <1>0, <2>1 DEF MarketQuiet, KeysKept, MarketTyped, Mk!TypeOK
<1>3. ASSUME NEW r \in Requests, Mk!CheckFunds(r) PROVE MarketTyped'
  <2>1. PICK n \in 1 .. Bulk : size' = [size EXCEPT ![r] = n] /\ unclear' \subseteq unclear \union {r}
    BY <1>3 DEF Mk!CheckFunds
  <2>2. UNCHANGED <<kind, key, inbox, open, last, wallet, listed, todo, several, freed>>
        /\ pc' = [pc EXCEPT ![r] = "checked"]
    BY <1>3 DEF Mk!CheckFunds, Mk!Step
  <2> QED BY <1>0, <2>1, <2>2, MarketAssumption DEF MarketTyped, Mk!TypeOK
<1>4. ASSUME NEW r \in Requests, Mk!SendBulk(r) PROVE MarketTyped'
  <2>1. UNCHANGED <<kind, open, last, wallet, size, listed, todo, unclear, several, freed>>
        /\ pc' = [pc EXCEPT ![r] = "wait"]
        /\ key' = [k \in Mk!Keys |-> IF k \in 1 .. size[r] THEN r ELSE key[k]]
    BY <1>4 DEF Mk!SendBulk, Mk!Step
  <2>2. inbox' \in Seq(Message)
    <3>1. inbox' = Append(inbox, [by |-> r, cancels |-> None]) /\ [by |-> r, cancels |-> None] \in Message
      BY <1>4 DEF Mk!SendBulk, Message
    <3> QED BY <3>1, AppendToInbox
  <2> QED BY <1>0, <2>1, <2>2 DEF MarketTyped, Mk!TypeOK
<1>5. ASSUME NEW r \in Requests, Mk!ListOrders(r) PROVE MarketTyped'
  <2>1. PICK S \in SUBSET open : todo' = [todo EXCEPT ![r] = S] /\ listed' = [listed EXCEPT ![r] = S]
    BY <1>5 DEF Mk!ListOrders
  <2>2. UNCHANGED <<kind, key, inbox, open, last, wallet, size, unclear, several, freed>>
        /\ pc' = [pc EXCEPT ![r] = "checked"]
    BY <1>5 DEF Mk!ListOrders, Mk!Step
  <2> QED BY <1>0, <2>1, <2>2 DEF MarketTyped, Mk!TypeOK
<1>6. ASSUME NEW r \in Requests, Mk!SendCancel(r) PROVE MarketTyped'
  <2>1. PICK o \in todo[r] : inbox' = Append(inbox, [by |-> r, cancels |-> o]) /\ todo' = [todo EXCEPT ![r] = @ \ {o}]
    BY <1>6 DEF Mk!SendCancel
  <2>2. UNCHANGED <<kind, key, open, last, wallet, size, listed, unclear, freed>>
        /\ pc' = [pc EXCEPT ![r] = "sent"] /\ several' \subseteq several \union {r}
    BY <1>6 DEF Mk!SendCancel, Mk!Step
  <2>3. o \in Mk!Order
    BY <1>0, <2>1 DEF MarketTyped
  <2>4. inbox' \in Seq(Message)
    <3>1. [by |-> r, cancels |-> o] \in Message
      BY <2>3 DEF Message
    <3> QED BY <2>1, <3>1, AppendToInbox
  <2> QED BY <1>0, <2>1, <2>2, <2>4 DEF MarketTyped, Mk!TypeOK
<1>7. CASE Mk!Match
  <2>1. /\ 1 \in DOMAIN inbox /\ Head(inbox) = inbox[1] /\ inbox[1] \in Message
        /\ inbox' \in Seq(Message)
    BY <1>7, TailOfInbox DEF Mk!Match
  <2>2. PICK m \in Message : m = Head(inbox)
    BY <2>1
  <2>3. m.by \in Requests /\ size[m.by] \in 0 .. Bulk
    BY <1>0, <2>2, MessageFields DEF MarketTyped, Mk!TypeOK
  <2>4. UNCHANGED <<kind, pc, size, listed, todo, unclear, several>>
    BY <1>7 DEF Mk!Match
  <2>5. CASE m.cancels = None
    <3>1. /\ open' = open \union Mk!NewOrders(size[m.by])
          /\ last' = last + size[m.by]
          /\ wallet' = wallet - size[m.by]
          /\ key' = [k \in Mk!Keys |-> IF k \in 1 .. size[m.by] THEN None ELSE key[k]]
          /\ UNCHANGED freed
      BY <1>7, <2>2, <2>5 DEF Mk!Match
    <3>2. PICK n \in Nat : n = size[m.by]
      BY <2>3, MarketAssumption
    <3>3. last \in Nat /\ last' = last + n /\ last' \in Nat /\ wallet' \in Int
      BY <1>0, <3>1, <3>2 DEF MarketTyped, Mk!TypeOK
    <3>4. \A o \in Mk!NewOrders(n) : o \in Mk!Order /\ o.id <= last'
      BY <3>3 DEF Mk!NewOrders, Mk!Order
    <3>5. open' \subseteq Mk!Order /\ \A o \in open' : o.id <= last'
      <4>1. \A o \in open : o \in Mk!Order /\ o.id <= last /\ o.id \in Nat
        BY <1>0 DEF MarketTyped, Mk!TypeOK, Mk!Order
      <4>2. \A o \in open : o.id <= last'
        BY <3>2, <3>3, <4>1
      <4> QED BY <3>1, <3>2, <3>4, <4>1, <4>2
    <3>6. \A q \in Requests : \A o \in listed'[q] : o.id <= last'
      <4>1. \A q \in Requests : \A o \in listed[q] : o.id <= last /\ o.id \in Nat
        BY <1>0 DEF MarketTyped, Mk!Order
      <4> QED BY <2>4, <3>2, <3>3, <4>1
    <3>7. key' \in [Mk!Keys -> Requests \union {None}]
      BY <1>0, <3>1 DEF MarketTyped, Mk!TypeOK
    <3> QED BY <1>0, <2>1, <2>4, <3>1, <3>3, <3>5, <3>6, <3>7 DEF MarketTyped, Mk!TypeOK
  <2>6. CASE m.cancels # None
    <3>1. /\ open' \subseteq open /\ wallet' \in {wallet, wallet + 1} /\ UNCHANGED last
          /\ key' = [key EXCEPT ![0] = None]
          /\ freed' = freed \union ({key[0]} \ {None, m.by})
      BY <1>7, <2>2, <2>6 DEF Mk!Match
    <3>2. key' \in [Mk!Keys -> Requests \union {None}] /\ freed' \subseteq Requests
      BY <1>0, <3>1, KeyZero DEF MarketTyped, Mk!TypeOK
    <3> QED BY <1>0, <2>1, <2>4, <3>1, <3>2 DEF MarketTyped, Mk!TypeOK
  <2> QED BY <2>5, <2>6
<1> QED BY <1>1, <1>2, <1>3, <1>4, <1>5, <1>6, <1>7, MarketNext

-------------------------------------------------------------------------------
(* Bulks are covered *)

LEMMA BulksInit == Mk!Init => BulksAreSent /\ BulksAreCovered
BY MarketAssumption DEF Mk!Init, BulksAreSent, BulksAreCovered, Bulks, Pending

\* Where nothing but pc changes, and no bulk gets past its check.
LEMMA BulksQuiet ==
    ASSUME BulksAreSent, BulksAreCovered, MarketQuiet, NEW r \in Requests, Moves(r) \/ pc' = pc,
           MarketTyped
    PROVE  BulksAreSent' /\ BulksAreCovered'
<1>1. Bulks' = Bulks /\ inbox' = inbox /\ kind' = kind
  BY DEF MarketQuiet, Bulks
<1>2. \A q \in Requests : Mk!IsBulk(q) /\ pc[q] \in {"wait", "done"} => pc'[q] \in {"wait", "done"}
  BY DEF Moves, MarketTyped, Mk!TypeOK
<1>3. \A i \in Bulks : inbox[i].by \in Requests
  BY MessageFields DEF Bulks, MarketTyped
<1>4. BulksAreSent'
  BY <1>1, <1>2, <1>3 DEF BulksAreSent
<1>5. Pending' \subseteq Pending
  BY <1>1 DEF Pending, Moves, MarketTyped, Mk!TypeOK
<1>6. BulksAreCovered'
  BY <1>1, <1>5 DEF BulksAreCovered, MarketQuiet
<1> QED BY <1>4, <1>6

LEMMA BulksCheck ==
    ASSUME MarketTyped, BulksAreSent, BulksAreCovered, NEW r \in Requests, Mk!CheckFunds(r)
    PROVE  BulksAreSent' /\ BulksAreCovered'
<1>1. /\ Mk!IsBulk(r) /\ wallet >= 1 /\ pc[r] = "set" /\ pc' = [pc EXCEPT ![r] = "checked"]
      /\ UNCHANGED <<kind, inbox, wallet>>
  BY DEF Mk!CheckFunds, Mk!Step
<1>2. PICK n \in 1 .. Bulk :
        /\ size' = [size EXCEPT ![r] = n]
        /\ unclear' = unclear \union {q \in {r} :
               \/ n > 1
               \/ \E o \in Requests : o # r /\ Mk!IsBulk(o) /\ pc[o] = "checked"
               \/ \E i \in DOMAIN inbox : inbox[i].cancels = None}
  BY DEF Mk!CheckFunds
<1>3. /\ pc \in [Requests -> MarketPcs] /\ size \in [Requests -> 0 .. Bulk]
      /\ \A i \in DOMAIN inbox : inbox[i].by \in Requests
  BY MessageFields DEF MarketTyped, Mk!TypeOK, MarketPcs
<1>4. Bulks' = Bulks
  BY <1>1 DEF Bulks
<1>5. BulksAreSent'
  BY <1>1, <1>3, <1>4 DEF BulksAreSent, Bulks
<1>6. ASSUME unclear' = {} PROVE unclear = {} /\ n = 1 /\ Pending \subseteq {r} /\ Bulks = {}
  <2>1. r \notin unclear'
    BY <1>6
  <2>2. ~(n > 1) /\ ~(\E o \in Requests : o # r /\ Mk!IsBulk(o) /\ pc[o] = "checked")
        /\ ~(\E i \in DOMAIN inbox : inbox[i].cancels = None)
    BY <1>2, <2>1, Zenon
  <2> QED BY <1>2, <1>6, <2>2, MarketAssumption DEF Pending, Bulks
<1>7. ASSUME unclear' = {} PROVE Pending' = {r} /\ size'[r] = 1 /\ wallet' >= 1
  BY <1>1, <1>2, <1>3, <1>6, <1>7 DEF Pending
<1>8. wallet' \in Int
  BY <1>1 DEF MarketTyped, Mk!TypeOK
<1>9. BulksAreCovered'
  BY <1>4, <1>6, <1>7, <1>8 DEF BulksAreCovered
<1> QED BY <1>5, <1>9

LEMMA BulksSend ==
    ASSUME MarketTyped, BulksAreSent, BulksAreCovered, NEW r \in Requests, Mk!SendBulk(r)
    PROVE  BulksAreSent' /\ BulksAreCovered'
<1>1. /\ Mk!IsBulk(r) /\ pc[r] = "checked" /\ pc' = [pc EXCEPT ![r] = "wait"]
      /\ UNCHANGED <<kind, wallet, size, unclear>>
  BY DEF Mk!SendBulk, Mk!Step
<1>2. PICK m \in Message : m = [by |-> r, cancels |-> None]
  BY DEF Message
<1>3. /\ \A i \in DOMAIN inbox' : (i \in DOMAIN inbox /\ inbox'[i] = inbox[i])
                                   \/ (i = Len(inbox) + 1 /\ i \notin DOMAIN inbox /\ inbox'[i] = m)
      /\ Len(inbox) + 1 \in DOMAIN inbox' /\ inbox'[Len(inbox) + 1] = m
  BY <1>2, AppendToInbox DEF Mk!SendBulk
<1>4. m.by = r /\ m.cancels = None
  BY <1>2
<1>5. pc \in [Requests -> MarketPcs] /\ \A i \in DOMAIN inbox : inbox[i].by \in Requests
  BY MessageFields DEF MarketTyped, Mk!TypeOK, MarketPcs
<1>6. \A i \in Bulks' : (i \in Bulks /\ inbox'[i] = inbox[i]) \/ (i = Len(inbox) + 1 /\ inbox'[i] = m)
  BY <1>3 DEF Bulks
<1>7. BulksAreSent'
  BY <1>1, <1>4, <1>5, <1>6 DEF BulksAreSent, Bulks
<1>8. r \in Pending /\ Pending' = Pending \ {r}
  BY <1>1, <1>5 DEF Pending
<1>9. ASSUME unclear = {} PROVE /\ Bulks = {} /\ wallet >= 1 /\ Pending' = {} /\ size[r] = 1
                                /\ \A i \in Bulks' : i = Len(inbox) + 1 /\ inbox'[i] = m
  BY <1>6, <1>8, <1>9 DEF BulksAreCovered
<1>10. wallet \in Int
  BY DEF MarketTyped, Mk!TypeOK
<1>11. BulksAreCovered'
  BY <1>1, <1>4, <1>9, <1>10 DEF BulksAreCovered
<1> QED BY <1>7, <1>11

\* The requests of cancellations are no bulks.
LEMMA BulksCancel ==
    ASSUME MarketTyped, BulksAreSent, BulksAreCovered, NEW r \in Requests,
           Mk!ListOrders(r) \/ Mk!SendCancel(r)
    PROVE  BulksAreSent' /\ BulksAreCovered'
<1>1. /\ kind[r] = "cancelAll" /\ UNCHANGED <<kind, wallet, size, unclear>>
      /\ \E s \in MarketPcs : pc' = [pc EXCEPT ![r] = s]
  BY DEF Mk!ListOrders, Mk!SendCancel, Mk!Step, MarketPcs
<1>2. /\ \A i \in Bulks' : i \in Bulks /\ inbox'[i] = inbox[i]
      /\ \A i \in Bulks : inbox[i].by \in Requests
  <2>1. \A i \in DOMAIN inbox : inbox[i].by \in Requests
    BY MessageFields DEF MarketTyped
  <2>2. CASE Mk!ListOrders(r)
    BY <2>1, <2>2 DEF Mk!ListOrders, Bulks
  <2>3. CASE Mk!SendCancel(r)
    <3>1. PICK o \in todo[r] : inbox' = Append(inbox, [by |-> r, cancels |-> o])
      BY <2>3 DEF Mk!SendCancel
    <3>2. o \in Mk!Order /\ o # None
      BY <3>1, MarketAssumption DEF MarketTyped
    <3>3. PICK m \in Message : m = [by |-> r, cancels |-> o]
      BY <3>2 DEF Message
    <3>4. \A i \in DOMAIN inbox' : (i \in DOMAIN inbox /\ inbox'[i] = inbox[i]) \/ inbox'[i] = m
      BY <3>1, <3>3, AppendToInbox
    <3>5. m.cancels # None
      BY <3>2, <3>3
    <3> QED BY <2>1, <3>4, <3>5 DEF Bulks
  <2> QED BY <2>2, <2>3
<1>3. Pending' = Pending
  BY <1>1 DEF Pending, MarketTyped, Mk!TypeOK
<1>4. \A q \in Requests : Mk!IsBulk(q) => pc'[q] = pc[q]
  BY <1>1 DEF MarketTyped, Mk!TypeOK
<1>5. BulksAreSent'
  BY <1>1, <1>2, <1>4 DEF BulksAreSent
<1>6. BulksAreCovered'
  BY <1>1, <1>2, <1>3 DEF BulksAreCovered
<1> QED BY <1>5, <1>6

LEMMA BulksMatch ==
    ASSUME MarketTyped, BulksAreSent, BulksAreCovered, Mk!Match
    PROVE  BulksAreSent' /\ BulksAreCovered'
<1>1. UNCHANGED <<kind, pc, size, unclear>>
  BY DEF Mk!Match
<1>2. /\ 1 \in DOMAIN inbox /\ Head(inbox) = inbox[1] /\ inbox[1] \in Message
      /\ \A i \in DOMAIN inbox' : i + 1 \in DOMAIN inbox /\ inbox'[i] = inbox[i + 1]
  BY TailOfInbox DEF Mk!Match
<1>3. /\ \A i \in Bulks' : i + 1 \in Bulks /\ inbox'[i] = inbox[i + 1]
      /\ \A i \in Bulks' : i \in Nat \ {0}
  <2>1. \A i \in DOMAIN inbox' : i \in Nat \ {0}
    <3>1. inbox' \in Seq(Message)
      BY TailOfInbox DEF Mk!Match
    <3> QED BY <3>1
  <2> QED BY <1>2, <2>1 DEF Bulks
<1>4. Pending' = Pending
  BY <1>1 DEF Pending
<1>5. BulksAreSent'
  BY <1>1, <1>3 DEF BulksAreSent
<1>6. wallet \in Int /\ inbox[1].by \in Requests /\ size[inbox[1].by] \in 0 .. Bulk
  BY <1>2, MessageFields DEF MarketTyped, Mk!TypeOK
<1>7. ASSUME unclear = {} PROVE BulksAreCovered'
  <2>1. \A i, j \in Bulks' : i = j
    BY <1>3, <1>7 DEF BulksAreCovered
  <2>2. /\ Pending # {} => Bulks' = {}
        /\ \A i \in Bulks' : size[inbox'[i].by] = 1
    BY <1>3, <1>7 DEF BulksAreCovered
  <2>3. CASE inbox[1].cancels = None
    <3>1. 1 \in Bulks /\ wallet' = wallet - size[inbox[1].by]
      BY <1>2, <2>3 DEF Bulks, Mk!Match
    <3>2. size[inbox[1].by] = 1 /\ wallet >= 1 /\ Pending = {} /\ Bulks' = {}
      BY <1>3, <1>7, <3>1 DEF BulksAreCovered
    <3>3. wallet' >= 0
      BY <1>6, <3>1, <3>2
    <3> QED BY <1>4, <3>2, <3>3 DEF BulksAreCovered
  <2>4. CASE inbox[1].cancels # None
    <3>1. wallet' \in {wallet, wallet + 1}
      BY <1>2, <2>4 DEF Mk!Match
    <3>2. wallet' >= wallet /\ wallet' \in Int
      BY <1>6, <3>1
    <3>3. Bulks' # {} => Bulks # {}
      BY <1>3
    <3> QED BY <1>1, <1>4, <1>6, <1>7, <2>1, <2>2, <3>2, <3>3 DEF BulksAreCovered
  <2> QED BY <2>3, <2>4
<1>8. ASSUME unclear # {} PROVE BulksAreCovered'
  BY <1>1, <1>8 DEF BulksAreCovered
<1> QED BY <1>5, <1>7, <1>8

LEMMA BulksStep ==
    ASSUME MarketTyped, BulksAreSent, BulksAreCovered, Mk!Next
    PROVE  BulksAreSent' /\ BulksAreCovered'
<1>1. ASSUME NEW r \in Requests, MarketOther(r) PROVE BulksAreSent' /\ BulksAreCovered'
  BY <1>1, OtherSteps, BulksQuiet DEF OtherStep
<1>2. CASE MarketTime
  <2>1. MarketQuiet /\ pc' = pc
    BY <1>2, TimeSteps
  <2>2. Bulks' = Bulks /\ Pending' = Pending
    BY <2>1 DEF MarketQuiet, Bulks, Pending
  <2> QED BY <2>1, <2>2 DEF MarketQuiet, BulksAreSent, BulksAreCovered
<1> QED BY <1>1, <1>2, BulksCheck, BulksSend, BulksCancel, BulksMatch, MarketNext

-------------------------------------------------------------------------------
(* Cancellations are waited for *)

LEMMA CancelsInit == Mk!Init => CancelsAreSent /\ CancelsAreWaitedFor
BY DEF Mk!Init, CancelsAreSent, CancelsAreWaitedFor, WaitedFor

LEMMA CancelsSentStep ==
    ASSUME MarketTyped, CancelsAreSent, Mk!Next
    PROVE  CancelsAreSent'
<1>0. /\ pc \in [Requests -> MarketPcs] /\ kind \in [Requests -> Mk!Handlers]
      /\ listed \in [Requests -> SUBSET Mk!Order] /\ todo \in [Requests -> SUBSET Mk!Order]
      /\ \A r \in Requests : todo[r] \subseteq listed[r]
      /\ \A i \in DOMAIN inbox : inbox[i].by \in Requests
  BY MessageFields DEF MarketTyped, Mk!TypeOK, MarketPcs
<1>1. ASSUME NEW r \in Requests, MarketOther(r) PROVE CancelsAreSent'
  <2>1. MarketQuiet /\ Moves(r)
    BY <1>1, OtherSteps DEF OtherStep
  <2>2. \A q \in Requests : pc'[q] \in Early => pc[q] \in Early
    BY <1>0, <2>1 DEF Moves
  <2> QED BY <2>1, <2>2 DEF MarketQuiet, CancelsAreSent, Sent, Early
<1>2. CASE MarketTime
  <2>1. MarketQuiet /\ pc' = pc
    BY <1>2, TimeSteps
  <2> QED BY <2>1 DEF MarketQuiet, CancelsAreSent, Sent
<1>3. ASSUME NEW r \in Requests, Mk!CheckFunds(r) PROVE CancelsAreSent'
  <2>1. UNCHANGED <<kind, inbox, listed, todo, several>> /\ pc' = [pc EXCEPT ![r] = "checked"]
    BY <1>3 DEF Mk!CheckFunds, Mk!Step
  <2> QED BY <1>0, <2>1 DEF CancelsAreSent, Sent
<1>4. ASSUME NEW r \in Requests, Mk!SendBulk(r) PROVE CancelsAreSent'
  <2>1. UNCHANGED <<kind, listed, todo, several>> /\ pc' = [pc EXCEPT ![r] = "wait"]
    BY <1>4 DEF Mk!SendBulk, Mk!Step
  <2>2. PICK m \in Message : m = [by |-> r, cancels |-> None]
    BY DEF Message
  <2>3. \A i \in DOMAIN inbox' : (i \in DOMAIN inbox /\ inbox'[i] = inbox[i]) \/ inbox'[i].cancels = None
    BY <1>4, <2>2, AppendToInbox DEF Mk!SendBulk
  <2> QED BY <1>0, <2>1, <2>3 DEF CancelsAreSent, Sent
<1>5. ASSUME NEW r \in Requests, Mk!ListOrders(r) PROVE CancelsAreSent'
  <2>1. PICK S \in SUBSET open : todo' = [todo EXCEPT ![r] = S] /\ listed' = [listed EXCEPT ![r] = S]
    BY <1>5 DEF Mk!ListOrders
  <2>2. UNCHANGED <<kind, inbox, several>> /\ pc[r] = "set" /\ pc' = [pc EXCEPT ![r] = "checked"]
    BY <1>5 DEF Mk!ListOrders, Mk!Step
  <2>3. Sent(r) = {}
    BY <2>2 DEF CancelsAreSent, Sent
  <2>4. \A i \in DOMAIN inbox : inbox[i].cancels # None => inbox[i].by # r
    BY <2>3 DEF CancelsAreSent
  <2>5. \A q \in Requests : q # r => Sent(q)' = Sent(q)
    BY <1>0, <2>1 DEF Sent
  <2>6. \A q \in Requests : pc'[q] \in Early => q # r /\ pc[q] \in Early
    BY <1>0, <2>2 DEF Early
  <2> QED BY <1>0, <2>1, <2>2, <2>4, <2>5, <2>6 DEF CancelsAreSent, Early
<1>6. ASSUME NEW r \in Requests, Mk!SendCancel(r) PROVE CancelsAreSent'
  <2>1. PICK o \in todo[r] : inbox' = Append(inbox, [by |-> r, cancels |-> o]) /\ todo' = [todo EXCEPT ![r] = @ \ {o}]
    BY <1>6 DEF Mk!SendCancel
  <2>2. UNCHANGED <<kind, listed>> /\ kind[r] = "cancelAll" /\ pc' = [pc EXCEPT ![r] = "sent"]
        /\ several' = several \union {q \in {r} : listed[r] # todo[r]}
    BY <1>6 DEF Mk!SendCancel, Mk!Step
  <2>3. o \in listed[r] /\ o \in Mk!Order
    BY <1>0, <2>1
  <2>4. PICK m \in Message : m = [by |-> r, cancels |-> o]
    BY <2>3 DEF Message
  <2>5. \A i \in DOMAIN inbox' : (i \in DOMAIN inbox /\ inbox'[i] = inbox[i]) \/ inbox'[i] = m
    BY <2>1, <2>4, AppendToInbox
  <2>6. Sent(r)' = Sent(r) \union {o} /\ \A q \in Requests : q # r => Sent(q)' = Sent(q)
    BY <1>0, <2>1, <2>2, <2>3 DEF Sent
  <2>7. r \notin several' => r \notin several /\ Sent(r) = {}
    BY <2>2 DEF Sent
  <2>8. ASSUME NEW i \in DOMAIN inbox', inbox'[i].cancels # None
        PROVE  \E q \in Requests :
                   /\ inbox'[i].by = q /\ kind'[q] = "cancelAll"
                   /\ inbox'[i].cancels \in Sent(q)'
                   /\ q \notin several' => Sent(q)' = {inbox'[i].cancels}
    <3>1. CASE i \in DOMAIN inbox /\ inbox'[i] = inbox[i]
      <4>1. PICK q \in Requests : q = inbox[i].by
        BY <1>0, <3>1
      <4>2. kind[q] = "cancelAll" /\ inbox[i].cancels \in Sent(q) /\ (q \notin several => Sent(q) = {inbox[i].cancels})
        BY <2>8, <3>1, <4>1 DEF CancelsAreSent
      <4>3. several \subseteq several'
        BY <2>2
      <4>4. inbox[i].cancels \in Sent(q)' /\ (q \notin several' => Sent(q)' = {inbox[i].cancels})
        BY <2>6, <2>7, <4>2, <4>3
      <4> QED BY <2>2, <3>1, <4>1, <4>2, <4>4
    <3>2. CASE inbox'[i] = m
      <4>1. inbox'[i].by = r /\ inbox'[i].cancels = o
        BY <2>4, <3>2
      <4>2. o \in Sent(r)' /\ (r \notin several' => Sent(r)' = {o})
        BY <2>6, <2>7
      <4> QED BY <2>2, <4>1, <4>2
    <3> QED BY <2>5, <3>1, <3>2
  <2>9. \A q \in Requests : pc'[q] \in Early => q # r /\ pc[q] \in Early
    BY <1>0, <2>2 DEF Early
  <2>10. \A q \in Requests : pc'[q] \in Early => listed'[q] = {} /\ todo'[q] = {}
    BY <1>0, <2>1, <2>2, <2>9 DEF CancelsAreSent, Early
  <2>11. \A i \in DOMAIN inbox' :
            inbox'[i].cancels # None =>
                /\ kind'[inbox'[i].by] = "cancelAll"
                /\ inbox'[i].cancels \in listed'[inbox'[i].by] \ todo'[inbox'[i].by]
                /\ inbox'[i].by \notin several' => listed'[inbox'[i].by] \ todo'[inbox'[i].by] = {inbox'[i].cancels}
    BY <2>8 DEF Sent
  <2> QED BY <2>10, <2>11 DEF CancelsAreSent, Early, Sent
<1>7. CASE Mk!Match
  <2>1. UNCHANGED <<kind, pc, listed, todo, several>>
    BY <1>7 DEF Mk!Match
  <2>2. \A i \in DOMAIN inbox' : i + 1 \in DOMAIN inbox /\ inbox'[i] = inbox[i + 1]
    BY <1>7, TailOfInbox DEF Mk!Match
  <2> QED BY <2>1, <2>2 DEF CancelsAreSent, Sent
<1> QED BY <1>1, <1>2, <1>3, <1>4, <1>5, <1>6, <1>7, MarketNext

\* A step that changes nothing of q but perhaps its key, and opens none of its orders
LEMMA WaitedForKept ==
    ASSUME NEW q \in Requests, WaitedFor(q), pc'[q] = pc[q],
           listed'[q] = listed[q], todo'[q] = todo[q],
           listed[q] \intersect open' \subseteq open,
           pc[q] \in Mk!Held /\ key[0] = q => key'[0] = q
    PROVE  WaitedFor(q)'
<1>1. Sent(q)' = Sent(q) /\ Sent(q) \subseteq listed[q]
  BY DEF Sent
<1>2. Sent(q) \intersect open = {} => Sent(q) \intersect open' = {}
  BY <1>1
<1> QED BY <1>1, <1>2 DEF WaitedFor, Mk!Held

LEMMA WaitedForOther ==
    ASSUME MarketTyped, CancelsAreSent, NEW r \in Requests, MarketOther(r), NEW q \in Requests,
           kind[q] = "cancelAll", q \notin freed', WaitedFor(q)
    PROVE  WaitedFor(q)'
<1>1. OtherStep(r)
  BY OtherSteps
<1>2. pc \in [Requests -> MarketPcs] /\ key \in [Mk!Keys -> Requests \union {None}]
  BY DEF MarketTyped, Mk!TypeOK, MarketPcs
<1>3. CASE q # r
  <2>1. pc'[q] = pc[q] /\ (pc[q] \in Mk!Held /\ key[0] = q => key'[0] = q)
    BY <1>1, <1>2, <1>3 DEF OtherStep, Moves, KeepsKey
  <2> QED BY <1>1, <2>1, WaitedForKept DEF OtherStep, MarketQuiet
<1>4. CASE q = r
  <2>1. UNCHANGED <<open, listed, todo>> /\ Sent(q)' = Sent(q)
    BY <1>1 DEF OtherStep, MarketQuiet, Sent
  <2>2. CASE Mk!Guard(r) \/ Mk!Pass(r) \/ Mk!CancelAllFails(r)
    <3>1. pc'[q] \in {"guard", "failed"}
      BY <1>2, <1>4, <2>2 DEF Mk!Guard, Mk!Pass, Mk!CancelAllFails, Mk!Step
    <3> QED BY <3>1 DEF WaitedFor
  <2>3. CASE Mk!TakeKey(r)
    <3>1. pc'[q] = "set" /\ key'[0] = q
      BY <1>2, <1>4, <2>3, KeyZero DEF Mk!TakeKey, Mk!Step, Mk!SetKey
    <3> QED BY <3>1 DEF WaitedFor
  <2>4. CASE Mk!CancelSent(r)
    <3>1. pc[q] = "sent" /\ key[0] = None /\ pc'[q] = "checked"
      BY <1>2, <1>4, <2>4 DEF Mk!CancelSent, Mk!Step
    <3>2. Sent(q) # {} /\ Sent(q) \intersect open = {}
      BY <3>1, KeyZero DEF WaitedFor
    <3> QED BY <2>1, <3>1, <3>2 DEF WaitedFor
  <2>5. CASE Mk!CancelAllDone(r)
    <3>1. pc[q] = "checked" /\ todo[q] = {} /\ pc'[q] = "done"
      BY <1>2, <1>4, <2>5 DEF Mk!CancelAllDone, Mk!Step
    <3>2. Sent(q) = listed[q] /\ Sent(q) \intersect open = {}
      BY <3>1 DEF WaitedFor, Sent
    <3> QED BY <2>1, <3>1, <3>2 DEF WaitedFor
  <2>6. \/ Mk!Guard(r) \/ Mk!Pass(r) \/ Mk!CancelAllFails(r)
        \/ Mk!TakeKey(r) \/ Mk!CancelSent(r) \/ Mk!CancelAllDone(r)
    BY <1>4 DEF MarketOther, Mk!RejectBulk, Mk!BulkDone, Mk!OddsOrder, Mk!Halt, Mk!WriteScript, Mk!DropCache,
       Mk!Display, Mk!CachePage
  <2> QED BY <2>2, <2>3, <2>4, <2>5, <2>6
<1> QED BY <1>3, <1>4

LEMMA WaitedForMatch ==
    ASSUME MarketTyped, CancelsAreSent, Mk!Match, NEW q \in Requests,
           kind[q] = "cancelAll", q \notin several \union freed', WaitedFor(q)
    PROVE  WaitedFor(q)'
<1>1. UNCHANGED <<pc, listed, todo>> /\ Sent(q)' = Sent(q)
  BY DEF Mk!Match, Sent
<1>2. 1 \in DOMAIN inbox /\ Head(inbox) = inbox[1] /\ inbox[1] \in Message
  BY TailOfInbox DEF Mk!Match
<1>3. PICK m \in Message : m = Head(inbox)
  BY <1>2
<1>4. m.by \in Requests /\ size[m.by] \in 0 .. Bulk
  BY <1>3, MessageFields DEF MarketTyped, Mk!TypeOK
<1>5. CASE m.cancels = None
  <2>1. /\ open' = open \union Mk!NewOrders(size[m.by])
        /\ key' = [k \in Mk!Keys |-> IF k \in 1 .. size[m.by] THEN None ELSE key[k]]
    BY <1>3, <1>5 DEF Mk!Match
  <2>2. PICK n \in Nat : n = size[m.by]
    BY <1>4, MarketAssumption
  <2>3. \A o \in listed[q] : o.id <= last /\ o.id \in Nat
    BY DEF MarketTyped, Mk!Order
  <2>4. \A o \in Mk!NewOrders(n) : o.id > last /\ o.id \in Nat
    BY DEF Mk!NewOrders, MarketTyped, Mk!TypeOK
  <2>5. listed[q] \intersect Mk!NewOrders(n) = {}
    <3>1. last \in Nat
      BY DEF MarketTyped, Mk!TypeOK
    <3> QED BY <2>3, <2>4, <3>1
  <2>6. key'[0] = key[0]
    BY <2>1, <2>2, KeyZero
  <2>7. listed[q] \intersect open' \subseteq open
    BY <2>1, <2>2, <2>5
  <2> QED BY <1>1, <2>6, <2>7, WaitedForKept
<1>6. CASE m.cancels # None
  <2>1. /\ open' = open \ {m.cancels}
        /\ freed' = freed \union ({key[0]} \ {None, m.by})
    BY <1>3, <1>6 DEF Mk!Match
  <2>2. CASE key[0] # q
    BY <1>1, <2>1, <2>2, WaitedForKept
  <2>3. CASE key[0] = q
    <3>1. m.by = q
      BY <2>1, <2>3, KeyZero
    <3>2. Sent(q) = {m.cancels}
      BY <1>2, <1>3, <1>6, <3>1 DEF CancelsAreSent
    <3>3. pc[q] # "set"
      BY <3>2 DEF CancelsAreSent, Sent
    <3>4. Sent(q) \intersect open' = {} /\ Sent(q) # {}
      BY <2>1, <3>2
    <3> QED BY <1>1, <2>1, <3>3, <3>4 DEF WaitedFor
  <2> QED BY <2>2, <2>3
<1> QED BY <1>5, <1>6

LEMMA CancelsWaitedStep ==
    ASSUME MarketTyped, CancelsAreSent, CancelsAreWaitedFor, Mk!Next
    PROVE  CancelsAreWaitedFor'
<1>0. /\ pc \in [Requests -> MarketPcs] /\ key \in [Mk!Keys -> Requests \union {None}]
      /\ size \in [Requests -> 0 .. Bulk]
      /\ listed \in [Requests -> SUBSET Mk!Order] /\ todo \in [Requests -> SUBSET Mk!Order]
  BY DEF MarketTyped, Mk!TypeOK, MarketPcs
<1>1. ASSUME NEW r \in Requests, MarketOther(r) PROVE CancelsAreWaitedFor'
  <2>1. UNCHANGED <<kind, several>> /\ freed \subseteq freed'
    BY <1>1, OtherSteps DEF OtherStep, MarketQuiet, KeysKept
  <2> QED BY <1>1, <2>1, WaitedForOther DEF CancelsAreWaitedFor
<1>2. CASE MarketTime
  <2>1. MarketQuiet /\ KeysKept /\ KeepsKey(None) /\ pc' = pc
    BY <1>2, TimeSteps
  <2>2. ASSUME NEW q \in Requests, WaitedFor(q), q \notin freed' PROVE WaitedFor(q)'
    <3>1. pc[q] \in Mk!Held /\ key[0] = q => key'[0] = q
      BY <2>1, <2>2, KeyZero DEF KeepsKey
    <3> QED BY <2>1, <2>2, <3>1, WaitedForKept DEF MarketQuiet
  <2> QED BY <2>1, <2>2 DEF CancelsAreWaitedFor, MarketQuiet, KeysKept
<1>3. ASSUME NEW r \in Requests, Mk!CheckFunds(r) \/ Mk!SendBulk(r) PROVE CancelsAreWaitedFor'
  <2>1. /\ UNCHANGED <<kind, open, listed, todo, several, freed>> /\ Mk!IsBulk(r)
        /\ \E s \in MarketPcs : pc' = [pc EXCEPT ![r] = s]
    BY <1>3 DEF Mk!CheckFunds, Mk!SendBulk, Mk!Step, MarketPcs
  <2>2. key'[0] = key[0]
    <3>1. CASE Mk!CheckFunds(r)
      BY <3>1 DEF Mk!CheckFunds
    <3>2. CASE Mk!SendBulk(r)
      <4>1. key' = [k \in Mk!Keys |-> IF k \in 1 .. size[r] THEN r ELSE key[k]]
        BY <3>2 DEF Mk!SendBulk
      <4>2. 0 \notin 1 .. size[r]
        BY <1>0
      <4> QED BY <4>1, <4>2, KeyZero
    <3> QED BY <1>3, <3>1, <3>2
  <2>3. ASSUME NEW q \in Requests, kind[q] = "cancelAll", WaitedFor(q) PROVE WaitedFor(q)'
    <3>1. pc'[q] = pc[q]
      BY <1>0, <2>1, <2>3
    <3> QED BY <2>1, <2>2, <2>3, <3>1, WaitedForKept
  <2> QED BY <2>1, <2>3 DEF CancelsAreWaitedFor
<1>4. ASSUME NEW r \in Requests, Mk!ListOrders(r) PROVE CancelsAreWaitedFor'
  <2>1. PICK S \in SUBSET open : todo' = [todo EXCEPT ![r] = S] /\ listed' = [listed EXCEPT ![r] = S]
    BY <1>4 DEF Mk!ListOrders
  <2>2. UNCHANGED <<kind, key, open, several, freed>> /\ pc[r] = "set" /\ pc' = [pc EXCEPT ![r] = "checked"]
    BY <1>4 DEF Mk!ListOrders, Mk!Step
  <2>3. ASSUME NEW q \in Requests, WaitedFor(q) PROVE WaitedFor(q)'
    <3>1. CASE q # r
      <4>1. pc'[q] = pc[q] /\ listed'[q] = listed[q] /\ todo'[q] = todo[q]
        BY <1>0, <2>1, <2>2, <3>1
      <4> QED BY <2>2, <2>3, <4>1, WaitedForKept
    <3>2. CASE q = r
      <4>1. pc'[q] = "checked" /\ key'[0] = q /\ Sent(q)' = {}
        BY <1>0, <2>1, <2>2, <2>3, <3>2 DEF WaitedFor, Sent
      <4> QED BY <4>1 DEF WaitedFor
    <3> QED BY <3>1, <3>2
  <2> QED BY <2>2, <2>3 DEF CancelsAreWaitedFor
<1>5. ASSUME NEW r \in Requests, Mk!SendCancel(r) PROVE CancelsAreWaitedFor'
  <2>1. PICK o \in todo[r] : todo' = [todo EXCEPT ![r] = @ \ {o}]
    BY <1>5 DEF Mk!SendCancel
  <2>2. /\ UNCHANGED <<kind, key, open, listed, freed>> /\ pc[r] = "checked" /\ pc' = [pc EXCEPT ![r] = "sent"]
        /\ several' = several \union {q \in {r} : listed[r] # todo[r]}
    BY <1>5 DEF Mk!SendCancel, Mk!Step
  <2>3. ASSUME NEW q \in Requests, WaitedFor(q), q \notin several' PROVE WaitedFor(q)'
    <3>1. CASE q # r
      <4>1. pc'[q] = pc[q] /\ listed'[q] = listed[q] /\ todo'[q] = todo[q]
        BY <1>0, <2>1, <2>2, <3>1
      <4> QED BY <2>2, <2>3, <4>1, WaitedForKept
    <3>2. CASE q = r
      <4>1. listed[q] = todo[q] /\ Sent(q) = {}
        BY <2>2, <2>3, <3>2 DEF Sent
      <4>2. pc'[q] = "sent" /\ key'[0] = q
        BY <1>0, <2>2, <2>3, <3>2, <4>1 DEF WaitedFor
      <4>3. Sent(q)' = {o}
        BY <1>0, <2>1, <2>2, <3>2, <4>1 DEF Sent
      <4> QED BY <4>2, <4>3 DEF WaitedFor
    <3> QED BY <3>1, <3>2
  <2> QED BY <2>2, <2>3 DEF CancelsAreWaitedFor
<1>6. CASE Mk!Match
  <2>1. UNCHANGED <<kind, several>> /\ freed \subseteq freed'
    BY <1>6 DEF Mk!Match
  <2> QED BY <1>6, <2>1, WaitedForMatch DEF CancelsAreWaitedFor
<1> QED BY <1>1, <1>2, <1>3, <1>4, <1>5, <1>6, MarketNext

-------------------------------------------------------------------------------
(* Together *)

LEMMA MarketStutter ==
    ASSUME MarketInv, UNCHANGED Mk!vars
    PROVE  MarketInv'
<1>1. MarketQuiet /\ pc' = pc /\ key' = key /\ freed' = freed
  BY DEF Mk!vars, MarketQuiet
<1>2. MarketTyped'
  BY <1>1 DEF MarketInv, MarketTyped, Mk!TypeOK, MarketQuiet
<1>3. Bulks' = Bulks /\ Pending' = Pending
  BY <1>1 DEF MarketQuiet, Bulks, Pending
<1>4. BulksAreSent' /\ BulksAreCovered'
  BY <1>1, <1>3 DEF MarketInv, MarketQuiet, BulksAreSent, BulksAreCovered
<1>5. CancelsAreSent'
  BY <1>1 DEF MarketInv, MarketQuiet, CancelsAreSent, Sent
<1>6. CancelsAreWaitedFor'
  BY <1>1 DEF MarketInv, MarketQuiet, CancelsAreWaitedFor, WaitedFor, Sent
<1> QED BY <1>2, <1>4, <1>5, <1>6 DEF MarketInv

LEMMA MarketInvariant == Mk!Spec => []MarketInv
<1>1. Mk!Init => MarketInv
  BY MarketTypedInit, BulksInit, CancelsInit DEF MarketInv
<1>2. MarketInv /\ [Mk!Next]_Mk!vars => MarketInv'
  BY MarketTypedStep, BulksStep, CancelsSentStep, CancelsWaitedStep, MarketStutter DEF MarketInv
<1> QED BY <1>1, <1>2, PTL DEF Mk!Spec

LEMMA MarketInvImplies == MarketInv => Mk!TypeOK /\ Mk!MakerOrders
<1> SUFFICES ASSUME MarketInv PROVE Mk!TypeOK /\ Mk!MakerOrders
  OBVIOUS
<1>1. Mk!TypeOK /\ wallet \in Int
  BY DEF MarketInv, MarketTyped, Mk!TypeOK
<1>2. Mk!WalletCovers
  BY <1>1 DEF MarketInv, BulksAreCovered, Mk!WalletCovers
<1>3. Mk!CancelAllIsDone
  BY DEF MarketInv, CancelsAreWaitedFor, WaitedFor, Mk!CancelAllIsDone
<1> QED BY <1>1, <1>2, <1>3 DEF Mk!MakerOrders

LEMMA MakerOrdersKept == Mk!Spec => []Mk!MakerOrders
BY MarketInvariant, MarketInvImplies, PTL

LEMMA MarketTypesKept == Mk!Spec => []Mk!TypeOK
BY MarketInvariant, MarketInvImplies, PTL

-------------------------------------------------------------------------------
(* LIQUIDITY.  A user's key is deleted by the engine that has handled his    *)
(* request, or by something that is on record: while nothing of his is       *)
(* (Undisturbed), one request of his is at work, the key is its own until    *)
(* the engine has left its answer, and its shares are his (UserKept).  What  *)
(* is left in the pool is a sum over all users (PoolKept).                   *)

ProviderPcs == {"idle", "passed", "set", "checked", "wait", "read", "done", "refused"}

LiquidityTyped ==
    /\ Li!TypeOK
    /\ kind \in [Requests -> Li!Kinds] /\ user \in [Requests -> Users]
    /\ inbox \in Seq(Requests)
    /\ resp \in [Li!Kinds -> [Users -> Requests \union {None}]]
    /\ freed \subseteq Requests /\ overlapped \subseteq Requests

Queued(r) == \E i \in DOMAIN inbox : inbox[i] = r

\* A request is sent once.
QueuedOnce ==
    /\ \A r \in Requests : Queued(r) => pc[r] \in {"wait", "read", "done"}
    /\ \A i, j \in DOMAIN inbox : inbox[i] = inbox[j] => i = j

\* A key is that of a request of its user between setting it and the answer.
KeyIsHeld ==
    \A u \in Users : key[u] # None => pc[key[u]] \in {"set", "checked", "wait"} /\ user[key[u]] = u

Undisturbed(u) == \A o \in freed : user[o] # u
Active == {"set", "checked", "wait", "read"}

\* Where the request r of u is, and what it may rely on
ServedAlone(r, u) ==
    /\ pc[r] \in {"set", "checked"} => key[u] = r
    /\ pc[r] = "wait" => \/ key[u] = r /\ Queued(r)
                         \/ key[u] = None /\ ~Queued(r) /\ resp[kind[r]][u] = r
    /\ pc[r] \in {"read", "done"} => answer[r] = r /\ ~Queued(r)
    /\ kind[r] = "remove" /\ (pc[r] = "checked" \/ Queued(r)) => tokens[u] >= shares[r]

UserKept(u) ==
    Undisturbed(u) =>
        /\ tokens[u] >= 0
        /\ \A r, o \in Requests :
              user[r] = u /\ user[o] = u /\ pc[r] \in Active /\ pc[o] \in Active => r = o
        /\ \A r \in Requests : user[r] = u => ServedAlone(r, u)

UsersKept == \A u \in Users : UserKept(u)

\* Until removals overlap there is one at a time, and it leaves a share.
PoolKept ==
    overlapped = {} =>
        /\ Li!Pool > 0
        /\ \A r, o \in Li!OnTheWay : r = o
        /\ \A r \in Li!OnTheWay : Li!Pool > shares[r]

LiquidityInv == LiquidityTyped /\ QueuedOnce /\ KeyIsHeld /\ UsersKept /\ PoolKept

USE DEF Li!Kinds

-------------------------------------------------------------------------------
(* The inbox *)

LEMMA QueueTail ==
    ASSUME LiquidityTyped, QueuedOnce, inbox # <<>>, inbox' = Tail(inbox), NEW h, h = Head(inbox)
    PROVE  /\ h \in Requests /\ Queued(h) /\ ~Queued(h)'
           /\ inbox' \in Seq(Requests)
           /\ \A r \in Requests : r # h => (Queued(r)' <=> Queued(r))
           /\ \A i, j \in DOMAIN inbox' : inbox'[i] = inbox'[j] => i = j
<1>1. inbox \in Seq(Requests)
  BY DEF LiquidityTyped
<1>2. Len(inbox) \in Nat \ {0} /\ DOMAIN inbox = 1 .. Len(inbox)
  BY <1>1
<1>3. /\ inbox' \in Seq(Requests) /\ DOMAIN inbox' = 1 .. Len(inbox) - 1
      /\ \A i \in 1 .. Len(inbox) - 1 : inbox'[i] = inbox[i + 1]
  BY <1>1
<1>4. h = inbox[1] /\ h \in Requests /\ 1 \in DOMAIN inbox
  BY <1>1, <1>2
<1>5. \A i, j \in DOMAIN inbox : inbox[i] = inbox[j] => i = j
  BY DEF QueuedOnce
<1>6. \A i \in DOMAIN inbox' : i + 1 \in DOMAIN inbox /\ i + 1 # 1 /\ inbox'[i] = inbox[i + 1] /\ i \in Nat
  BY <1>2, <1>3
<1>7. \A i \in DOMAIN inbox : i # 1 => i - 1 \in DOMAIN inbox' /\ inbox'[i - 1] = inbox[i]
  BY <1>2, <1>3
<1>8. \A i, j \in DOMAIN inbox' : inbox'[i] = inbox'[j] => i = j
  BY <1>5, <1>6
<1>9. ~Queued(h)'
  <2>1. SUFFICES ASSUME NEW i \in DOMAIN inbox', inbox'[i] = h PROVE FALSE
    BY <1>4 DEF Queued
  <2> QED BY <1>4, <1>5, <1>6, <2>1
<1>10. ASSUME NEW r \in Requests, r # h PROVE Queued(r)' <=> Queued(r)
  <2>1. ASSUME Queued(r) PROVE Queued(r)'
    <3>1. PICK i \in DOMAIN inbox : inbox[i] = r
      BY <2>1 DEF Queued
    <3>2. i - 1 \in DOMAIN inbox' /\ inbox'[i - 1] = r
      BY <1>4, <1>7, <1>10, <3>1
    <3> QED BY <3>2 DEF Queued
  <2>2. ASSUME Queued(r)' PROVE Queued(r)
    <3>1. PICK i \in DOMAIN inbox' : inbox'[i] = r
      BY <2>2 DEF Queued
    <3>2. i + 1 \in DOMAIN inbox /\ inbox[i + 1] = r
      BY <1>6, <3>1
    <3> QED BY <3>2 DEF Queued
  <2> QED BY <2>1, <2>2
<1> QED BY <1>3, <1>4, <1>8, <1>9, <1>10 DEF Queued

LEMMA QueueAppend ==
    ASSUME LiquidityTyped, QueuedOnce, NEW r \in Requests, ~Queued(r), inbox' = Append(inbox, r)
    PROVE  /\ inbox' \in Seq(Requests) /\ Queued(r)'
           /\ \A o \in Requests : o # r => (Queued(o)' <=> Queued(o))
           /\ \A i, j \in DOMAIN inbox' : inbox'[i] = inbox'[j] => i = j
<1>1. inbox \in Seq(Requests)
  BY DEF LiquidityTyped
<1>2. Len(inbox) \in Nat /\ DOMAIN inbox = 1 .. Len(inbox)
  BY <1>1
<1>3. /\ inbox' \in Seq(Requests) /\ DOMAIN inbox' = 1 .. Len(inbox) + 1
      /\ inbox'[Len(inbox) + 1] = r
      /\ \A i \in 1 .. Len(inbox) : inbox'[i] = inbox[i]
  BY <1>1
<1>4. \A i \in DOMAIN inbox' : (i \in DOMAIN inbox /\ inbox'[i] = inbox[i] /\ inbox'[i] # r)
                               \/ (i = Len(inbox) + 1 /\ inbox'[i] = r)
  BY <1>2, <1>3 DEF Queued
<1>5. \A i \in DOMAIN inbox : i \in DOMAIN inbox' /\ inbox'[i] = inbox[i]
  BY <1>2, <1>3
<1>6. \A i, j \in DOMAIN inbox' : inbox'[i] = inbox'[j] => i = j
  BY <1>4 DEF QueuedOnce
<1>7. Queued(r)'
  BY <1>2, <1>3 DEF Queued
<1>8. ASSUME NEW o \in Requests, o # r PROVE Queued(o)' <=> Queued(o)
  BY <1>4, <1>5, <1>8 DEF Queued
<1> QED BY <1>3, <1>6, <1>7, <1>8

LEMMA QueueSame ==
    ASSUME inbox' = inbox
    PROVE  \A r \in Requests : Queued(r)' <=> Queued(r)
BY DEF Queued

-------------------------------------------------------------------------------
(* What the steps change *)

\* Nothing that concerns u, but that freed may grow
Same(u) ==
    /\ key'[u] = key[u] /\ tokens'[u] = tokens[u]
    /\ \A k \in Li!Kinds : resp'[k][u] = resp[k][u]
    /\ \A r \in Requests :
          user[r] = u => pc'[r] = pc[r] /\ shares'[r] = shares[r] /\ answer'[r] = answer[r]
                         /\ (Queued(r)' <=> Queued(r))

LEMMA SameKeeps ==
    ASSUME LiquidityTyped, NEW u \in Users, Same(u), UserKept(u), UNCHANGED <<kind, user>>, freed \subseteq freed'
    PROVE  UserKept(u)'
<1> SUFFICES ASSUME Undisturbed(u)'
             PROVE  /\ tokens'[u] >= 0
                    /\ \A r, o \in Requests :
                          user[r] = u /\ user[o] = u /\ pc'[r] \in Active /\ pc'[o] \in Active => r = o
                    /\ \A r \in Requests : user[r] = u => ServedAlone(r, u)'
  BY DEF UserKept
<1>1. Undisturbed(u)
  BY DEF Undisturbed
<1>2. /\ tokens[u] >= 0
      /\ \A r, o \in Requests :
            user[r] = u /\ user[o] = u /\ pc[r] \in Active /\ pc[o] \in Active => r = o
      /\ \A r \in Requests : user[r] = u => ServedAlone(r, u)
  BY <1>1 DEF UserKept
<1>3. ASSUME NEW r \in Requests, user[r] = u PROVE ServedAlone(r, u)'
  <2>1. ServedAlone(r, u) /\ kind[r] \in Li!Kinds
    BY <1>2, <1>3 DEF LiquidityTyped
  <2>2. /\ key'[u] = key[u] /\ tokens'[u] = tokens[u] /\ resp'[kind[r]][u] = resp[kind[r]][u]
        /\ pc'[r] = pc[r] /\ shares'[r] = shares[r] /\ answer'[r] = answer[r] /\ (Queued(r)' <=> Queued(r))
    BY <1>3, <2>1 DEF Same
  <2> QED BY <2>1, <2>2 DEF ServedAlone
<1> QED BY <1>2, <1>3 DEF Same

\* A step of r concerns its user only.
ProviderStep(r) ==
    \/ Li!Refuse(r) \/ Li!Pass(r) \/ Li!SetKey(r) \/ Li!Reject(r) \/ Li!CheckAdd(r) \/ Li!CheckRemove(r)
    \/ Li!Send(r) \/ Li!Fail(r) \/ Li!ReadAnswer(r) \/ Li!DropAnswer(r)

PutKeyFacts(u, v, r) ==
    /\ key' = [key EXCEPT ![u] = v] /\ freed \subseteq freed' /\ freed' \subseteq Requests
    /\ Undisturbed(u)' => Undisturbed(u) /\ key[u] \in {None, r}

LEMMA KeyPut ==
    ASSUME LiquidityTyped, KeyIsHeld, UNCHANGED user, NEW u \in Users, NEW v, NEW r, Li!PutKey(u, v, r)
    PROVE  PutKeyFacts(u, v, r)
<1>1. key[u] \in Requests \union {None} /\ freed \subseteq Requests
  BY DEF LiquidityTyped, Li!TypeOK
<1>2. key' = [key EXCEPT ![u] = v] /\ freed' = freed \union {o \in {key[u]} \ {None, r} : o \in Li!Holding}
  BY DEF Li!PutKey
<1>3. key[u] # None => key[u] \in Li!Holding /\ user[key[u]] = u
  BY <1>1 DEF KeyIsHeld, Li!Holding
<1>4. Undisturbed(u)' => Undisturbed(u) /\ key[u] \in {None, r}
  BY <1>2, <1>3 DEF Undisturbed
<1> QED BY <1>1, <1>2, <1>4 DEF PutKeyFacts

\* What the steps of a request that leave the inbox and the tokens do
ProviderEffect(r) ==
    /\ UNCHANGED <<kind, user, tokens>> /\ freed \subseteq freed' /\ freed' \subseteq Requests
    /\ \E s \in ProviderPcs : pc' = [pc EXCEPT ![r] = s]
    /\ \E n \in 0 .. Shares : shares' = [shares EXCEPT ![r] = n]
    /\ \E a \in Requests \union {None} : answer' = [answer EXCEPT ![r] = a]
    /\ \E v \in {None, r, key[user[r]]} : key' = [key EXCEPT ![user[r]] = v]
    /\ \/ resp' = resp
       \/ resp' = [resp EXCEPT ![kind[r]][user[r]] = None]
    /\ overlapped' \subseteq Requests
    /\ \/ inbox' = inbox
       \/ pc[r] = "checked" /\ pc'[r] = "wait" /\ inbox' = Append(inbox, r)

Responses == [Li!Kinds -> [Users -> Requests \union {None}]]

LEMMA RespSet ==
    ASSUME LiquidityTyped, NEW k \in Li!Kinds, NEW v \in Users, NEW w \in Requests \union {None},
           resp' = [resp EXCEPT ![k][v] = w]
    PROVE  /\ resp' \in Responses
           /\ \A j \in Li!Kinds : \A u \in Users : resp'[j][u] = IF j = k /\ u = v THEN w ELSE resp[j][u]
<1>1. resp \in Responses
  BY DEF LiquidityTyped, Responses
<1>2. PICK row : row = resp[k]
  OBVIOUS
<1>3. row \in [Users -> Requests \union {None}]
  BY <1>1, <1>2 DEF Responses
<1>4. resp' = [resp EXCEPT ![k] = [row EXCEPT ![v] = w]]
  BY <1>2
<1>5. PICK new : new = [row EXCEPT ![v] = w]
  OBVIOUS
<1>6. new \in [Users -> Requests \union {None}] /\ \A u \in Users : new[u] = IF u = v THEN w ELSE row[u]
  BY <1>3, <1>5
<1>7. resp' = [resp EXCEPT ![k] = new]
  BY <1>4, <1>5
<1>8. resp' \in Responses /\ \A j \in Li!Kinds : resp'[j] = IF j = k THEN new ELSE resp[j]
  BY <1>1, <1>6, <1>7 DEF Responses
<1> QED BY <1>2, <1>6, <1>8

LEMMA ProviderEffects ==
    ASSUME LiquidityTyped, KeyIsHeld, NEW r \in Requests, ProviderStep(r)
    PROVE  ProviderEffect(r)
<1>0. /\ user[r] \in Users /\ kind[r] \in Li!Kinds /\ Shares \in Nat
      /\ pc \in [Requests -> ProviderPcs] /\ shares \in [Requests -> 0 .. Shares]
      /\ answer \in [Requests -> Requests \union {None}] /\ key \in [Users -> Requests \union {None}]
      /\ resp \in [Li!Kinds -> [Users -> Requests \union {None}]]
      /\ freed \subseteq Requests /\ overlapped \subseteq Requests
  BY LiquidityAssumption DEF LiquidityTyped, Li!TypeOK, ProviderPcs
<1>1. /\ key = [key EXCEPT ![user[r]] = key[user[r]]]
      /\ shares = [shares EXCEPT ![r] = shares[r]] /\ shares[r] \in 0 .. Shares
      /\ answer = [answer EXCEPT ![r] = answer[r]] /\ answer[r] \in Requests \union {None}
  BY <1>0
<1> USE <1>0, <1>1, KeyPut DEF ProviderEffect, PutKeyFacts, Li!Step, ProviderPcs
<1>2. CASE Li!Refuse(r)
  BY <1>2 DEF Li!Refuse
<1>3. CASE Li!Pass(r)
  BY <1>3 DEF Li!Pass
<1>4. CASE Li!SetKey(r)
  <2>1. PICK n \in 1 .. Shares : shares' = [shares EXCEPT ![r] = n]
    BY <1>4 DEF Li!SetKey
  <2>2. n \in 0 .. Shares
    OBVIOUS
  <2>3. /\ pc' = [pc EXCEPT ![r] = "set"] /\ key' = [key EXCEPT ![user[r]] = r]
        /\ freed \subseteq freed' /\ freed' \subseteq Requests
        /\ UNCHANGED <<kind, user, inbox, tokens, resp, answer, overlapped>>
    BY <1>4 DEF Li!SetKey
  <2> QED BY <2>1, <2>2, <2>3
<1>5. CASE Li!Reject(r)
  BY <1>5 DEF Li!Reject
<1>6. CASE Li!CheckAdd(r)
  BY <1>6 DEF Li!CheckAdd
<1>7. CASE Li!CheckRemove(r)
  BY <1>7 DEF Li!CheckRemove
<1>8. CASE Li!Send(r)
  <2>1. pc[r] = "checked" /\ pc' = [pc EXCEPT ![r] = "wait"] /\ pc'[r] = "wait" /\ inbox' = Append(inbox, r)
        /\ UNCHANGED <<kind, user, shares, key, tokens, resp, answer, freed, overlapped>>
    BY <1>8 DEF Li!Send
  <2> QED BY <2>1
<1>9. CASE Li!Fail(r)
  BY <1>9 DEF Li!Fail
<1>10. CASE Li!ReadAnswer(r)
  <2>1. UNCHANGED <<kind, user, shares, inbox, tokens, resp, overlapped>> /\ pc' = [pc EXCEPT ![r] = "read"]
        /\ answer' = [answer EXCEPT ![r] = resp[kind[r]][user[r]]] /\ Li!PutKey(user[r], None, r)
    BY <1>10 DEF Li!ReadAnswer
  <2>2. resp[kind[r]][user[r]] \in Requests \union {None}
    OBVIOUS
  <2> QED BY <2>1, <2>2
<1>11. CASE Li!DropAnswer(r)
  BY <1>11 DEF Li!DropAnswer
<1> QED BY <1>2, <1>3, <1>4, <1>5, <1>6, <1>7, <1>8, <1>9, <1>10, <1>11 DEF ProviderStep

\* A step of r leaves the other users alone.
LEMMA OthersAreSame ==
    ASSUME LiquidityTyped, QueuedOnce, NEW r \in Requests, ProviderEffect(r), NEW u \in Users, u # user[r]
    PROVE  Same(u)
<1>0. /\ user[r] \in Users /\ kind[r] \in Li!Kinds
      /\ pc \in [Requests -> ProviderPcs] /\ shares \in [Requests -> 0 .. Shares]
      /\ answer \in [Requests -> Requests \union {None}] /\ key \in [Users -> Requests \union {None}]
      /\ resp \in [Li!Kinds -> [Users -> Requests \union {None}]]
  BY DEF LiquidityTyped, Li!TypeOK, ProviderPcs
<1>1. key'[u] = key[u] /\ tokens'[u] = tokens[u]
  BY <1>0 DEF ProviderEffect
<1>2. \A k \in Li!Kinds : resp'[k][u] = resp[k][u]
  <2>1. CASE resp' = resp
    BY <2>1
  <2>2. CASE resp' = [resp EXCEPT ![kind[r]][user[r]] = None]
    BY <1>0, <2>2, RespSet
  <2> QED BY <2>1, <2>2 DEF ProviderEffect
<1>3. \A o \in Requests : o # r => pc'[o] = pc[o] /\ shares'[o] = shares[o] /\ answer'[o] = answer[o]
  BY <1>0 DEF ProviderEffect
<1>4. \A o \in Requests : o # r => (Queued(o)' <=> Queued(o))
  <2>1. CASE inbox' = inbox
    BY <2>1, QueueSame
  <2>2. CASE pc[r] = "checked" /\ inbox' = Append(inbox, r)
    <3>1. ~Queued(r)
      BY <2>2 DEF QueuedOnce
    <3> QED BY <2>2, <3>1, QueueAppend
  <2> QED BY <2>1, <2>2 DEF ProviderEffect
<1>5. \A o \in Requests : user[o] = u => o # r
  OBVIOUS
<1> QED BY <1>1, <1>2, <1>3, <1>4, <1>5 DEF Same

LEMMA ExpireEffects ==
    ASSUME LiquidityTyped, KeyIsHeld, Li!KeyExpire
    PROVE  /\ UNCHANGED <<kind, user, pc, shares, inbox, tokens, resp, answer, overlapped>>
           /\ \E u \in Users : key[u] # None /\ PutKeyFacts(u, None, None)
<1>1. UNCHANGED <<kind, user, pc, shares, inbox, tokens, resp, answer, overlapped>>
  BY DEF Li!KeyExpire
<1>2. PICK u \in Users : key[u] # None /\ Li!PutKey(u, None, None)
  BY DEF Li!KeyExpire
<1> QED BY <1>1, <1>2, KeyPut

EngineEffect(h) ==
    /\ UNCHANGED <<kind, user, pc, shares, answer, overlapped>>
    /\ tokens' = [tokens EXCEPT ![user[h]] = IF kind[h] = "add" THEN @ + shares[h] ELSE @ - shares[h]]
    /\ resp' = [resp EXCEPT ![kind[h]][user[h]] = h]
    /\ PutKeyFacts(user[h], None, h)
    /\ Queued(h) /\ ~Queued(h)' /\ inbox' \in Seq(Requests)
    /\ \A r \in Requests : r # h => (Queued(r)' <=> Queued(r))
    /\ \A i, j \in DOMAIN inbox' : inbox'[i] = inbox'[j] => i = j

LEMMA EngineEffects ==
    ASSUME LiquidityTyped, KeyIsHeld, QueuedOnce, Li!Engine
    PROVE  \E h \in Requests : EngineEffect(h)
<1>1. PICK h : h = Head(inbox)
  OBVIOUS
<1>2. /\ inbox # <<>> /\ inbox' = Tail(inbox)
      /\ UNCHANGED <<kind, user, pc, shares, answer, overlapped>>
      /\ tokens' = [tokens EXCEPT ![user[h]] = IF kind[h] = "add" THEN @ + shares[h] ELSE @ - shares[h]]
      /\ resp' = [resp EXCEPT ![kind[h]][user[h]] = h]
      /\ Li!PutKey(user[h], None, h)
  BY <1>1 DEF Li!Engine
<1>3. h \in Requests /\ user[h] \in Users
  BY <1>1, <1>2, QueueTail DEF LiquidityTyped
<1>4. PutKeyFacts(user[h], None, h)
  BY <1>2, <1>3, KeyPut
<1> QED BY <1>1, <1>2, <1>3, <1>4, QueueTail DEF EngineEffect

LEMMA LiquidityNext ==
    ASSUME Li!Next
    PROVE  (\E r \in Requests : ProviderStep(r)) \/ Li!Engine \/ Li!KeyExpire
BY DEF Li!Next, ProviderStep

-------------------------------------------------------------------------------
(* Types, the inbox and the keys *)

LEMMA LiquidityTypedInit == Li!Init => LiquidityTyped /\ QueuedOnce /\ KeyIsHeld
<1> SUFFICES ASSUME Li!Init PROVE LiquidityTyped /\ QueuedOnce /\ KeyIsHeld
  OBVIOUS
<1> USE LiquidityAssumption DEF Li!Init
<1>1. Li!TypeOK
  BY DEF Li!TypeOK
<1>2. inbox \in Seq(Requests) /\ inbox = <<>>
  OBVIOUS
<1>3. LiquidityTyped
  BY <1>1, <1>2 DEF LiquidityTyped
<1>4. QueuedOnce
  BY <1>2 DEF QueuedOnce, Queued
<1>5. KeyIsHeld
  BY DEF KeyIsHeld
<1> QED BY <1>3, <1>4, <1>5

LEMMA LiquidityTypedStep ==
    ASSUME LiquidityTyped, QueuedOnce, KeyIsHeld, Li!Next
    PROVE  LiquidityTyped'
<1>0. /\ user \in [Requests -> Users] /\ kind \in [Requests -> Li!Kinds] /\ Shares \in Nat
      /\ pc \in [Requests -> ProviderPcs] /\ shares \in [Requests -> 0 .. Shares]
      /\ answer \in [Requests -> Requests \union {None}] /\ key \in [Users -> Requests \union {None}]
      /\ resp \in [Li!Kinds -> [Users -> Requests \union {None}]] /\ inbox \in Seq(Requests)
      /\ tokens \in [Users -> Int] /\ overlapped \subseteq Requests /\ freed \subseteq Requests
  BY LiquidityAssumption DEF LiquidityTyped, Li!TypeOK, ProviderPcs
<1>1. ASSUME NEW r \in Requests, ProviderStep(r) PROVE LiquidityTyped'
  <2>1. ProviderEffect(r)
    BY <1>1, ProviderEffects
  <2>2. pc' \in [Requests -> ProviderPcs] /\ shares' \in [Requests -> 0 .. Shares]
        /\ answer' \in [Requests -> Requests \union {None}] /\ key' \in [Users -> Requests \union {None}]
    BY <1>0, <2>1 DEF ProviderEffect
  <2>3. resp' \in [Li!Kinds -> [Users -> Requests \union {None}]]
    <3>1. CASE resp' = resp
      BY <1>0, <3>1
    <3>2. CASE resp' = [resp EXCEPT ![kind[r]][user[r]] = None]
      BY <1>0, <3>2, RespSet DEF Responses
    <3> QED BY <2>1, <3>1, <3>2 DEF ProviderEffect
  <2>4. inbox' \in Seq(Requests)
    <3>1. Append(inbox, r) \in Seq(Requests)
      BY <1>0
    <3> QED BY <1>0, <2>1, <3>1 DEF ProviderEffect
  <2> QED BY <1>0, <2>1, <2>2, <2>3, <2>4 DEF ProviderEffect, LiquidityTyped, Li!TypeOK, ProviderPcs
<1>2. CASE Li!Engine
  <2>1. PICK h \in Requests : EngineEffect(h)
    BY <1>2, EngineEffects
  <2>2. tokens' \in [Users -> Int]
    <3>1. tokens[user[h]] + shares[h] \in Int /\ tokens[user[h]] - shares[h] \in Int
      BY <1>0
    <3> QED BY <1>0, <2>1, <3>1 DEF EngineEffect
  <2>3. resp' \in [Li!Kinds -> [Users -> Requests \union {None}]]
    BY <1>0, <2>1, RespSet DEF EngineEffect, Responses
  <2>4. key' \in [Users -> Requests \union {None}] /\ freed' \subseteq Requests
    BY <1>0, <2>1 DEF EngineEffect, PutKeyFacts
  <2> QED BY <1>0, <2>1, <2>2, <2>3, <2>4 DEF EngineEffect, LiquidityTyped, Li!TypeOK, ProviderPcs
<1>3. CASE Li!KeyExpire
  <2>1. /\ UNCHANGED <<kind, user, pc, shares, inbox, tokens, resp, answer, overlapped>>
        /\ \E u \in Users : PutKeyFacts(u, None, None)
    BY <1>3, ExpireEffects
  <2>2. key' \in [Users -> Requests \union {None}] /\ freed' \subseteq Requests
    BY <1>0, <2>1 DEF PutKeyFacts
  <2> QED BY <1>0, <2>1, <2>2 DEF LiquidityTyped, Li!TypeOK, ProviderPcs
<1> QED BY <1>1, <1>2, <1>3, LiquidityNext

LEMMA QueuedOnceStep ==
    ASSUME LiquidityTyped, QueuedOnce, KeyIsHeld, Li!Next
    PROVE  QueuedOnce'
<1>0. pc \in [Requests -> ProviderPcs]
  BY DEF LiquidityTyped, Li!TypeOK, ProviderPcs
<1>1. ASSUME NEW r \in Requests, ProviderStep(r) PROVE QueuedOnce'
  <2>1. ProviderEffect(r)
    BY <1>1, ProviderEffects
  <2>2. \A o \in Requests : o # r => pc'[o] = pc[o]
    BY <1>0, <2>1 DEF ProviderEffect
  <2>3. CASE inbox' = inbox
    <3>1. Queued(r) => pc'[r] \in {"wait", "read", "done"}
      <4>1. Queued(r) => pc[r] \in {"wait", "read", "done"}
        BY DEF QueuedOnce
      <4>2. pc[r] \in {"wait", "read", "done"} => pc'[r] \in {"read", "done"}
        BY <1>0, <1>1 DEF ProviderStep, Li!Step, Li!Refuse, Li!Pass, Li!SetKey, Li!Reject, Li!CheckAdd,
           Li!CheckRemove, Li!Send, Li!Fail, Li!ReadAnswer, Li!DropAnswer
      <4> QED BY <4>1, <4>2
    <3> QED BY <2>2, <2>3, <3>1, QueueSame DEF QueuedOnce
  <2>4. CASE pc[r] = "checked" /\ pc'[r] = "wait" /\ inbox' = Append(inbox, r)
    <3>1. ~Queued(r)
      BY <2>4 DEF QueuedOnce
    <3> QED BY <2>2, <2>4, <3>1, QueueAppend DEF QueuedOnce
  <2> QED BY <2>1, <2>3, <2>4 DEF ProviderEffect
<1>2. CASE Li!Engine
  <2>1. PICK h \in Requests : EngineEffect(h)
    BY <1>2, EngineEffects
  <2>2. \A r \in Requests : Queued(r)' => Queued(r)
    BY <2>1 DEF EngineEffect
  <2> QED BY <2>1, <2>2 DEF QueuedOnce, EngineEffect
<1>3. CASE Li!KeyExpire
  BY <1>3, ExpireEffects, QueueSame DEF QueuedOnce
<1> QED BY <1>1, <1>2, <1>3, LiquidityNext

\* A step of r that puts None or r for its key and ends its holding only with None.
LEMMA KeyHeldStep ==
    ASSUME LiquidityTyped, QueuedOnce, KeyIsHeld, Li!Next
    PROVE  KeyIsHeld'
<1>0. /\ user \in [Requests -> Users] /\ pc \in [Requests -> ProviderPcs]
      /\ key \in [Users -> Requests \union {None}] /\ None \notin Requests
  BY LiquidityAssumption DEF LiquidityTyped, Li!TypeOK, ProviderPcs
<1>1. ASSUME NEW r \in Requests, ProviderStep(r) PROVE KeyIsHeld'
  <2>1. ProviderEffect(r)
    BY <1>1, ProviderEffects
  <2>2. \A o \in Requests : o # r => pc'[o] = pc[o]
    BY <1>0, <2>1 DEF ProviderEffect
  <2>3. \A u \in Users : u # user[r] => key'[u] = key[u]
    BY <1>0, <2>1 DEF ProviderEffect
  <2>4. user' = user
    BY <2>1 DEF ProviderEffect
  <2>5. \/ key'[user[r]] = None
        \/ key'[user[r]] = r /\ pc'[r] = "set"
        \/ key'[user[r]] = key[user[r]] /\ (pc[r] \in {"set", "checked", "wait"} => pc'[r] \in {"set", "checked", "wait"})
    <3>1. CASE Li!Refuse(r) \/ Li!Reject(r) \/ Li!Fail(r) \/ Li!ReadAnswer(r) \/ Li!DropAnswer(r)
      BY <1>0, <3>1 DEF Li!Refuse, Li!Reject, Li!Fail, Li!ReadAnswer, Li!DropAnswer, Li!PutKey
    <3>2. CASE Li!SetKey(r)
      BY <1>0, <3>2 DEF Li!SetKey, Li!Step
    <3>3. CASE Li!Pass(r) \/ Li!CheckAdd(r) \/ Li!CheckRemove(r) \/ Li!Send(r)
      BY <1>0, <3>3 DEF Li!Pass, Li!CheckAdd, Li!CheckRemove, Li!Send, Li!Step
    <3> QED BY <1>1, <3>1, <3>2, <3>3 DEF ProviderStep
  <2>6. ASSUME NEW u \in Users, key'[u] # None PROVE pc'[key'[u]] \in {"set", "checked", "wait"} /\ user[key'[u]] = u
    <3>1. CASE u # user[r]
      <4>1. PICK o \in Requests : o = key[u] /\ o = key'[u]
        BY <1>0, <2>3, <2>6, <3>1
      <4>2. pc[o] \in {"set", "checked", "wait"} /\ user[o] = u
        BY <1>0, <4>1 DEF KeyIsHeld
      <4> QED BY <2>2, <3>1, <4>1, <4>2
    <3>2. CASE u = user[r] /\ key'[u] = key[u] /\ (pc[r] \in {"set", "checked", "wait"} => pc'[r] \in {"set", "checked", "wait"})
      <4>1. PICK o \in Requests : o = key[u] /\ o = key'[u]
        BY <1>0, <2>6, <3>2
      <4>2. pc[o] \in {"set", "checked", "wait"} /\ user[o] = u
        BY <1>0, <4>1 DEF KeyIsHeld
      <4> QED BY <2>2, <3>2, <4>1, <4>2
    <3>3. CASE u = user[r] /\ key'[u] = r /\ pc'[r] = "set"
      BY <3>3
    <3> QED BY <2>5, <2>6, <3>1, <3>2, <3>3
  <2> QED BY <2>4, <2>6 DEF KeyIsHeld
<1>2. ASSUME NEW v \in Users, key' = [key EXCEPT ![v] = None], UNCHANGED <<user, pc>> PROVE KeyIsHeld'
  BY <1>0, <1>2 DEF KeyIsHeld
<1>3. CASE Li!Engine
  <2>1. PICK h \in Requests : EngineEffect(h)
    BY <1>3, EngineEffects
  <2> QED BY <1>0, <1>2, <2>1 DEF EngineEffect, PutKeyFacts
<1>4. CASE Li!KeyExpire
  BY <1>2, <1>4, ExpireEffects DEF PutKeyFacts
<1> QED BY <1>1, <1>3, <1>4, LiquidityNext

-------------------------------------------------------------------------------
(* The users *)

LEMMA UsersInit == Li!Init => UsersKept
BY LiquidityAssumption DEF Li!Init, UsersKept, UserKept, ServedAlone, Active, Queued

\* What the user of an undisturbed request keeps, once it is known of r itself: the
\* others are not at work, or nothing of theirs changes.
LEMMA OwnUserStep ==
    ASSUME LiquidityTyped, QueuedOnce, NEW r \in Requests, ProviderEffect(r), NEW u, u = user[r],
           UserKept(u), Undisturbed(u), ServedAlone(r, u)',
           \/ \A o \in Requests \ {r} : user[o] = u => pc[o] \notin Active
           \/ pc'[r] \notin Active /\ key'[u] = key[u] /\ resp' = resp
    PROVE  UserKept(u)'
<1>0. /\ u \in Users /\ kind \in [Requests -> Li!Kinds]
      /\ pc \in [Requests -> ProviderPcs] /\ shares \in [Requests -> 0 .. Shares]
      /\ answer \in [Requests -> Requests \union {None}]
  BY DEF LiquidityTyped, Li!TypeOK, ProviderPcs
<1>1. /\ tokens[u] >= 0
      /\ \A o, q \in Requests :
            user[o] = u /\ user[q] = u /\ pc[o] \in Active /\ pc[q] \in Active => o = q
      /\ \A o \in Requests : user[o] = u => ServedAlone(o, u)
  BY DEF UserKept
<1>2. \A o \in Requests : o # r =>
          pc'[o] = pc[o] /\ shares'[o] = shares[o] /\ answer'[o] = answer[o]
  BY <1>0 DEF ProviderEffect
<1>3. \A o \in Requests : o # r => (Queued(o)' <=> Queued(o))
  <2>1. CASE inbox' = inbox
    BY <2>1, QueueSame
  <2>2. CASE pc[r] = "checked" /\ inbox' = Append(inbox, r)
    <3>1. ~Queued(r)
      BY <2>2 DEF QueuedOnce
    <3> QED BY <2>2, <3>1, QueueAppend
  <2> QED BY <2>1, <2>2 DEF ProviderEffect
<1>4. UNCHANGED <<kind, user, tokens>>
  BY DEF ProviderEffect
<1>5. ASSUME NEW o \in Requests, o # r, user[o] = u PROVE ServedAlone(o, u)'
  <2>1. ServedAlone(o, u)
    BY <1>1, <1>5
  <2>2. /\ pc'[o] = pc[o] /\ shares'[o] = shares[o] /\ answer'[o] = answer[o] /\ (Queued(o)' <=> Queued(o))
        /\ tokens'[u] = tokens[u] /\ kind'[o] = kind[o]
    BY <1>2, <1>3, <1>4, <1>5
  <2>3. CASE pc[o] \notin Active
    BY <2>1, <2>2, <2>3 DEF ServedAlone, Active
  <2>4. CASE key'[u] = key[u] /\ resp' = resp
    BY <2>1, <2>2, <2>4 DEF ServedAlone
  <2> QED BY <1>5, <2>3, <2>4
<1>6. \A o, q \in Requests :
          user[o] = u /\ user[q] = u /\ pc'[o] \in Active /\ pc'[q] \in Active => o = q
  BY <1>1, <1>2
<1>7. \A o \in Requests : user'[o] = u => ServedAlone(o, u)'
  BY <1>4, <1>5
<1> QED BY <1>1, <1>4, <1>6, <1>7 DEF UserKept

\* The requests of a user that do not hold his key are not at work.
LEMMA OwnUserKept ==
    ASSUME LiquidityTyped, QueuedOnce, KeyIsHeld, NEW r \in Requests, ProviderStep(r), UserKept(user[r])
    PROVE  \A u \in Users : u = user[r] => UserKept(u)'
<1> SUFFICES ASSUME NEW u \in Users, u = user[r], Undisturbed(u)' PROVE UserKept(u)'
  BY DEF UserKept
<1>0. /\ user \in [Requests -> Users] /\ kind \in [Requests -> Li!Kinds]
      /\ pc \in [Requests -> ProviderPcs] /\ shares \in [Requests -> 0 .. Shares]
      /\ key \in [Users -> Requests \union {None}] /\ r # None
      /\ answer \in [Requests -> Requests \union {None}]
      /\ resp \in [Li!Kinds -> [Users -> Requests \union {None}]]
      /\ freed \subseteq Requests
  BY LiquidityAssumption DEF LiquidityTyped, Li!TypeOK, ProviderPcs
<1>1. ProviderEffect(r)
  BY ProviderEffects
<1>2. /\ user' = user /\ kind' = kind /\ tokens' = tokens /\ freed \subseteq freed'
  BY <1>1 DEF ProviderEffect
<1>3. Undisturbed(u)
  BY <1>2 DEF Undisturbed
<1>4. /\ tokens[u] >= 0
      /\ \A o, q \in Requests :
            user[o] = u /\ user[q] = u /\ pc[o] \in Active /\ pc[q] \in Active => o = q
      /\ ServedAlone(r, u)
  BY <1>3 DEF UserKept
<1>5. Queued(r) => pc[r] \in {"wait", "read", "done"}
  BY DEF QueuedOnce
<1>6. inbox' = inbox => (Queued(r)' <=> Queued(r))
  BY QueueSame
<1>7. pc[r] \in Active => \A o \in Requests \ {r} : user[o] = u => pc[o] \notin Active
  BY <1>4
<1>8. ASSUME NEW v, NEW q \in {r}, Li!PutKey(user[r], v, q)
      PROVE  key' = [key EXCEPT ![u] = v] /\ key[u] \in {None, r}
  BY <1>0, <1>2, <1>8, KeyPut DEF PutKeyFacts
<1>9. key[u] = r => pc[r] \in {"set", "checked", "wait"}
  BY <1>0 DEF KeyIsHeld
<1>10. CASE Li!Refuse(r)
  <2>1. pc[r] = "idle" /\ pc'[r] = "refused" /\ resp' = resp /\ inbox' = inbox /\ Li!PutKey(user[r], None, r)
    BY <1>0, <1>10 DEF Li!Refuse, Li!Step
  <2>2. key[u] = None /\ key'[u] = None
    BY <1>0, <1>8, <1>9, <2>1
  <2>3. ServedAlone(r, u)'
    BY <1>5, <1>6, <2>1 DEF ServedAlone
  <2> QED BY <1>1, <1>3, <2>1, <2>2, <2>3, OwnUserStep DEF Active
<1>11. CASE Li!Pass(r)
  <2>1. pc[r] = "idle" /\ pc'[r] = "passed" /\ resp' = resp /\ inbox' = inbox /\ key' = key
    BY <1>0, <1>11 DEF Li!Pass, Li!Step
  <2>2. ServedAlone(r, u)'
    BY <1>5, <1>6, <2>1 DEF ServedAlone
  <2> QED BY <1>1, <1>3, <2>1, <2>2, OwnUserStep DEF Active
<1>12. CASE Li!SetKey(r)
  <2>1. /\ pc[r] = "passed" /\ pc'[r] = "set" /\ inbox' = inbox /\ key'[u] = r
        /\ freed' = freed \union
               {o \in Requests \ {r} : user[o] = user[r] /\ pc[o] \in {"set", "checked", "wait", "read"}}
    BY <1>0, <1>12 DEF Li!SetKey, Li!Step
  <2>2. \A o \in Requests \ {r} : user[o] = u => pc[o] \notin Active
    BY <1>2, <2>1 DEF Undisturbed, Active
  <2>3. ServedAlone(r, u)'
    BY <1>5, <1>6, <2>1 DEF ServedAlone
  <2> QED BY <1>1, <1>3, <2>2, <2>3, OwnUserStep
<1>13. CASE Li!Reject(r) \/ Li!Fail(r)
  <2>1. pc[r] \in {"set", "checked"} /\ pc'[r] = "refused" /\ inbox' = inbox
    BY <1>0, <1>13 DEF Li!Reject, Li!Fail, Li!Step
  <2>2. ServedAlone(r, u)'
    BY <1>5, <1>6, <2>1 DEF ServedAlone
  <2> QED BY <1>1, <1>3, <1>7, <2>1, <2>2, OwnUserStep DEF Active
<1>14. CASE Li!CheckAdd(r) \/ Li!CheckRemove(r)
  <2>1. /\ pc[r] = "set" /\ pc'[r] = "checked" /\ inbox' = inbox /\ key' = key /\ shares' = shares
        /\ kind[r] = "remove" => tokens[u] >= shares[r]
    BY <1>0, <1>14 DEF Li!CheckAdd, Li!CheckRemove, Li!Step
  <2>2. ServedAlone(r, u)'
    BY <1>2, <1>4, <1>5, <1>6, <2>1 DEF ServedAlone
  <2> QED BY <1>1, <1>3, <1>7, <2>1, <2>2, OwnUserStep DEF Active
<1>15. CASE Li!Send(r)
  <2>1. pc[r] = "checked" /\ pc'[r] = "wait" /\ inbox' = Append(inbox, r) /\ key' = key /\ shares' = shares
    BY <1>0, <1>15 DEF Li!Send, Li!Step
  <2>2. Queued(r)'
    BY <1>5, <2>1, QueueAppend
  <2>3. ServedAlone(r, u)'
    BY <1>2, <1>4, <2>1, <2>2 DEF ServedAlone
  <2> QED BY <1>1, <1>3, <1>7, <2>1, <2>3, OwnUserStep DEF Active
<1>16. CASE Li!ReadAnswer(r)
  <2>1. /\ pc[r] = "wait" /\ pc'[r] = "read" /\ inbox' = inbox /\ key[u] = None
        /\ answer'[r] = resp[kind[r]][u]
    BY <1>0, <1>16 DEF Li!ReadAnswer, Li!Step
  <2>2. ~Queued(r) /\ resp[kind[r]][u] = r
    BY <1>0, <1>4, <2>1 DEF ServedAlone
  <2>3. ServedAlone(r, u)'
    BY <1>6, <2>1, <2>2 DEF ServedAlone
  <2> QED BY <1>1, <1>3, <1>7, <2>1, <2>3, OwnUserStep DEF Active
<1>17. CASE Li!DropAnswer(r)
  <2>1. pc[r] = "read" /\ pc'[r] = "done" /\ inbox' = inbox /\ answer' = answer
    BY <1>0, <1>17 DEF Li!DropAnswer, Li!Step
  <2>2. ServedAlone(r, u)'
    BY <1>4, <1>6, <2>1 DEF ServedAlone
  <2> QED BY <1>1, <1>3, <1>7, <2>1, <2>2, OwnUserStep DEF Active
<1> QED BY <1>10, <1>11, <1>12, <1>13, <1>14, <1>15, <1>16, <1>17 DEF ProviderStep

LEMMA UsersStep ==
    ASSUME LiquidityTyped, QueuedOnce, KeyIsHeld, UsersKept, Li!Next
    PROVE  UsersKept'
<1>0. /\ user \in [Requests -> Users] /\ kind \in [Requests -> Li!Kinds]
      /\ pc \in [Requests -> ProviderPcs] /\ shares \in [Requests -> 0 .. Shares] /\ Shares \in Nat
      /\ key \in [Users -> Requests \union {None}] /\ None \notin Requests
      /\ tokens \in [Users -> Int]
  BY LiquidityAssumption DEF LiquidityTyped, Li!TypeOK, ProviderPcs
<1>1. ASSUME NEW r \in Requests, ProviderStep(r) PROVE UsersKept'
  <2>1. ProviderEffect(r)
    BY <1>1, ProviderEffects
  <2>2. UNCHANGED <<kind, user>> /\ freed \subseteq freed' /\ user[r] \in Users
    BY <1>0, <2>1 DEF ProviderEffect
  <2>3. \A u \in Users : u # user[r] => UserKept(u)'
    BY <2>1, <2>2, OthersAreSame, SameKeeps DEF UsersKept
  <2>4. \A u \in Users : u = user[r] => UserKept(u)'
    BY <1>1, <2>2, OwnUserKept DEF UsersKept
  <2> QED BY <2>3, <2>4 DEF UsersKept
<1>2. CASE Li!Engine
  <2>1. PICK h \in Requests : EngineEffect(h)
    BY <1>2, EngineEffects
  <2>2. PICK v \in Users : v = user[h]
    BY <1>0
  <2>3. /\ UNCHANGED <<kind, user, pc, shares, answer>> /\ freed \subseteq freed'
        /\ tokens' = [tokens EXCEPT ![v] = IF kind[h] = "add" THEN @ + shares[h] ELSE @ - shares[h]]
        /\ resp' = [resp EXCEPT ![kind[h]][v] = h]
        /\ key' = [key EXCEPT ![v] = None]
        /\ Queued(h) /\ ~Queued(h)'
        /\ \A r \in Requests : r # h => (Queued(r)' <=> Queued(r))
    BY <2>1, <2>2 DEF EngineEffect, PutKeyFacts
  <2>4. \A k \in Li!Kinds : \A u \in Users : resp'[k][u] = IF k = kind[h] /\ u = v THEN h ELSE resp[k][u]
    <3>1. PICK j \in Li!Kinds, w \in Requests \union {None} : j = kind[h] /\ w = h
      BY <1>0
    <3>2. resp' = [resp EXCEPT ![j][v] = w]
      BY <2>3, <3>1
    <3>3. \A k \in Li!Kinds : \A u \in Users : resp'[k][u] = IF k = j /\ u = v THEN w ELSE resp[k][u]
      BY <3>2, RespSet
    <3> QED BY <3>1, <3>3
  <2>5. ASSUME NEW u \in Users, u # v PROVE UserKept(u)'
    <3>1. Same(u)
      BY <1>0, <2>2, <2>3, <2>4, <2>5 DEF Same
    <3> QED BY <2>3, <3>1, SameKeeps DEF UsersKept
  <2>6. ASSUME Undisturbed(v)' PROVE UserKept(v)'
    <3>1. Undisturbed(v) /\ UserKept(v)
      BY <2>3, <2>6 DEF Undisturbed, UsersKept
    <3>2. /\ tokens[v] >= 0
          /\ \A r, o \in Requests :
                user[r] = v /\ user[o] = v /\ pc[r] \in Active /\ pc[o] \in Active => r = o
          /\ \A r \in Requests : user[r] = v => ServedAlone(r, v)
      BY <3>1 DEF UserKept
    <3>3. pc[h] = "wait" /\ key[v] = h /\ (kind[h] = "remove" => tokens[v] >= shares[h])
      <4>1. pc[h] \in {"wait", "read", "done"} /\ ServedAlone(h, v)
        BY <2>2, <2>3, <3>2 DEF QueuedOnce
      <4> QED BY <2>3, <4>1 DEF ServedAlone
    <3>4. tokens'[v] >= 0
      <4>1. tokens[v] \in Int /\ shares[h] \in Nat /\ kind[h] \in Li!Kinds
        BY <1>0
      <4> QED BY <1>0, <2>3, <3>2, <3>3, <4>1
    <3>5. \A o \in Requests : o # h /\ user[o] = v => pc[o] \notin Active /\ ~Queued(o)
      <4>1. \A o \in Requests : o # h /\ user[o] = v => pc[o] \notin Active
        BY <2>2, <3>2, <3>3 DEF Active
      <4>2. \A o \in Requests : Queued(o) => pc[o] \in {"wait", "read", "done"}
        BY DEF QueuedOnce
      <4>3. \A o \in Requests : user[o] = v /\ pc[o] \in {"read", "done"} => ~Queued(o)
        BY <3>2 DEF ServedAlone
      <4> QED BY <4>1, <4>2, <4>3 DEF Active
    <3>6. ASSUME NEW o \in Requests, user[o] = v PROVE ServedAlone(o, v)'
      <4>1. CASE o = h
        <5>1. pc'[o] = "wait" /\ key'[v] = None /\ ~Queued(o)' /\ resp'[kind'[o]][v] = o
          BY <1>0, <2>3, <2>4, <3>3, <4>1
        <5> QED BY <5>1 DEF ServedAlone
      <4>2. CASE o # h
        <5>1. pc'[o] = pc[o] /\ answer'[o] = answer[o] /\ ~Queued(o)' /\ pc[o] \notin Active /\ ServedAlone(o, v)
          BY <2>3, <3>2, <3>5, <3>6, <4>2
        <5> QED BY <5>1 DEF ServedAlone, Active
      <4> QED BY <4>1, <4>2
    <3> QED BY <2>3, <3>2, <3>4, <3>6 DEF UserKept
  <2>7. UserKept(v)'
    BY <2>6 DEF UserKept
  <2> QED BY <2>5, <2>7 DEF UsersKept
<1>3. CASE Li!KeyExpire
  <2>1. UNCHANGED <<kind, user, pc, shares, inbox, tokens, resp, answer>>
    BY <1>3, ExpireEffects
  <2>2. PICK v \in Users : key[v] # None /\ PutKeyFacts(v, None, None)
    BY <1>3, ExpireEffects
  <2>3. key' = [key EXCEPT ![v] = None] /\ freed \subseteq freed' /\ ~Undisturbed(v)'
    BY <2>2 DEF PutKeyFacts
  <2>4. ASSUME NEW u \in Users, u # v PROVE UserKept(u)'
    <3>1. Same(u)
      BY <1>0, <2>1, <2>3, <2>4, QueueSame DEF Same
    <3> QED BY <2>1, <2>3, <3>1, SameKeeps DEF UsersKept
  <2> QED BY <2>3, <2>4 DEF UsersKept, UserKept
<1> QED BY <1>1, <1>2, <1>3, LiquidityNext

-------------------------------------------------------------------------------
(* The pool *)

LEMMA PoolIsSum == Li!Pool = SumOver(tokens, Users) /\ Li!Pool' = SumOver(tokens', Users)
BY DEF Li!Pool, SumOver, FoldFunctionOnSet, Li!FoldFunctionOnSet, Li!MapThenFoldSet, MapThenFoldSet

LEMMA PoolNumber ==
    ASSUME LiquidityTyped
    PROVE  Li!Pool \in Int
<1>1. \A u \in Users : tokens[u] \in Int
  BY DEF LiquidityTyped, Li!TypeOK
<1> QED BY <1>1, LiquidityAssumption, PoolIsSum, SumType

LEMMA Removals ==
    /\ Li!OnTheWay = {r \in Requests : kind[r] = "remove" /\ (pc[r] = "checked" \/ Queued(r))}
    /\ Li!OnTheWay' = {r \in Requests : kind'[r] = "remove" /\ (pc'[r] = "checked" \/ Queued(r)')}
BY DEF Li!OnTheWay, Queued

LEMMA PoolInit == Li!Init => PoolKept
<1> SUFFICES ASSUME Li!Init PROVE PoolKept
  OBVIOUS
<1>1. \A u \in Users : tokens[u] = Shares
  BY DEF Li!Init
<1>2. Li!Pool = Shares * Cardinality(Users)
  BY <1>1, LiquidityAssumption, PoolIsSum, SumConstant
<1>3. Cardinality(Users) \in Nat /\ Cardinality(Users) # 0
  BY LiquidityAssumption, FS_CardinalityType, FS_EmptySet
<1>4. Shares * Cardinality(Users) > 0
  <2>1. \A m, n \in Nat \ {0} : m * n > 0
    OBVIOUS
  <2> QED BY <1>3, <2>1, LiquidityAssumption
<1>5. Li!OnTheWay = {}
  BY Removals DEF Li!Init, Queued
<1> QED BY <1>2, <1>4, <1>5 DEF PoolKept

\* While the pool is as before and no removal is new
LEMMA PoolSame ==
    ASSUME PoolKept, Li!Pool' = Li!Pool, overlapped' = overlapped,
           Li!OnTheWay' \subseteq Li!OnTheWay, \A r \in Li!OnTheWay : shares'[r] = shares[r]
    PROVE  PoolKept'
BY DEF PoolKept

LEMMA PoolStep ==
    ASSUME LiquidityTyped, QueuedOnce, KeyIsHeld, PoolKept, Li!Next
    PROVE  PoolKept'
<1>0. /\ user \in [Requests -> Users] /\ kind \in [Requests -> Li!Kinds]
      /\ pc \in [Requests -> ProviderPcs] /\ shares \in [Requests -> 0 .. Shares] /\ Shares \in Nat
      /\ tokens \in [Users -> Int]
  BY LiquidityAssumption DEF LiquidityTyped, Li!TypeOK, ProviderPcs
<1>1. tokens' = tokens => Li!Pool' = Li!Pool
  BY PoolIsSum
<1>2. ASSUME NEW r \in Requests, ProviderStep(r) PROVE PoolKept'
  <2>1. ProviderEffect(r)
    BY <1>2, ProviderEffects
  <2>2. /\ UNCHANGED <<kind, tokens>>
        /\ \A o \in Requests : o # r => pc'[o] = pc[o] /\ shares'[o] = shares[o]
    BY <1>0, <2>1 DEF ProviderEffect
  <2>3. \A o \in Requests : o # r => (Queued(o)' <=> Queued(o))
    <3>1. CASE inbox' = inbox
      BY <3>1, QueueSame
    <3>2. CASE pc[r] = "checked" /\ inbox' = Append(inbox, r)
      <4>1. ~Queued(r)
        BY <3>2 DEF QueuedOnce
      <4> QED BY <3>2, <4>1, QueueAppend
    <3> QED BY <2>1, <3>1, <3>2 DEF ProviderEffect
  <2>4. Queued(r) => pc[r] \in {"wait", "read", "done"}
    BY DEF QueuedOnce
  <2>5. inbox' = inbox => (Queued(r)' <=> Queued(r))
    BY QueueSame
  <2>6. Li!Pool' = Li!Pool
    BY <1>1, <2>2
  <2>7. CASE Li!CheckRemove(r)
    <3>1. /\ pc' = [pc EXCEPT ![r] = "checked"] /\ inbox' = inbox /\ shares' = shares /\ Li!Pool > shares[r]
          /\ overlapped' = overlapped \union {o \in {r} : Li!OnTheWay # {}}
      BY <2>7 DEF Li!CheckRemove, Li!Step
    <3>2. ASSUME overlapped' = {} PROVE overlapped = {} /\ Li!OnTheWay = {}
      BY <3>1, <3>2
    <3>3. Li!OnTheWay' \subseteq Li!OnTheWay \union {r}
      <4>1. \A o \in Requests : o # r /\ kind'[o] = "remove" /\ (pc'[o] = "checked" \/ Queued(o)') => o \in Li!OnTheWay
        BY <2>2, <2>3, Removals
      <4> QED BY <4>1, Removals
    <3> QED BY <2>6, <3>1, <3>2, <3>3 DEF PoolKept
  <2>8. CASE ~Li!CheckRemove(r)
    <3>1. overlapped' = overlapped
      BY <1>2, <2>8 DEF ProviderStep, Li!Refuse, Li!Pass, Li!SetKey, Li!Reject, Li!CheckAdd, Li!Send, Li!Fail,
         Li!ReadAnswer, Li!DropAnswer
    <3>2. kind[r] = "remove" /\ (pc'[r] = "checked" \/ Queued(r)') => r \in Li!OnTheWay
      <4>1. kind[r] = "remove" => pc'[r] # "checked"
        BY <1>0, <1>2, <2>8 DEF ProviderStep, Li!Step, Li!Refuse, Li!Pass, Li!SetKey, Li!Reject, Li!CheckAdd,
           Li!Send, Li!Fail, Li!ReadAnswer, Li!DropAnswer
      <4>2. Queued(r)' => Queued(r) \/ pc[r] = "checked"
        BY <2>1, <2>5 DEF ProviderEffect
      <4> QED BY <4>1, <4>2, Removals
    <3>3. Li!OnTheWay' \subseteq Li!OnTheWay
      <4>1. \A o \in Requests : kind'[o] = "remove" /\ (pc'[o] = "checked" \/ Queued(o)') => o \in Li!OnTheWay
        BY <2>2, <2>3, <3>2, Removals
      <4> QED BY <4>1, Removals
    <3>4. r \in Li!OnTheWay => shares'[r] = shares[r]
      <4>1. r \in Li!OnTheWay => pc[r] \in {"checked", "wait", "read", "done"}
        BY <2>4, Removals
      <4>2. pc[r] \in {"checked", "wait", "read", "done"} => shares' = shares
        BY <1>2 DEF ProviderStep, Li!Step, Li!Refuse, Li!Pass, Li!SetKey, Li!Reject, Li!CheckAdd, Li!CheckRemove,
           Li!Send, Li!Fail, Li!ReadAnswer, Li!DropAnswer
      <4> QED BY <4>1, <4>2
    <3>5. \A o \in Li!OnTheWay : shares'[o] = shares[o]
      BY <2>2, <3>4, Removals
    <3> QED BY <2>6, <3>1, <3>3, <3>5, PoolSame
  <2> QED BY <2>7, <2>8
<1>3. CASE Li!Engine
  <2>1. PICK h \in Requests : EngineEffect(h)
    BY <1>3, EngineEffects
  <2>2. PICK v \in Users : v = user[h]
    BY <1>0
  <2>3. PICK d \in Int : d = IF kind[h] = "add" THEN shares[h] ELSE 0 - shares[h]
    BY <1>0
  <2>4. tokens' = [tokens EXCEPT ![v] = tokens[v] + d]
    <3>1. tokens' = [tokens EXCEPT ![v] = IF kind[h] = "add" THEN tokens[v] + shares[h] ELSE tokens[v] - shares[h]]
      BY <2>1, <2>2 DEF EngineEffect
    <3>2. tokens[v] + d = IF kind[h] = "add" THEN tokens[v] + shares[h] ELSE tokens[v] - shares[h]
      BY <1>0, <2>3
    <3> QED BY <3>1, <3>2
  <2>5. Li!Pool' = Li!Pool + d
    <3>1. /\ \A u \in Users : tokens[u] \in Int /\ tokens'[u] \in Int
          /\ \A u \in Users \ {v} : tokens'[u] = tokens[u]
          /\ tokens'[v] - tokens[v] = d
      BY <1>0, <2>4
    <3>2. PICK f, g : f = tokens /\ g = tokens'
      OBVIOUS
    <3>3. SumOver(g, Users) = SumOver(f, Users) + (g[v] - f[v])
      BY <3>1, <3>2, LiquidityAssumption, SumChanged
    <3>4. Li!Pool' = SumOver(g, Users)
      BY <3>2, PoolIsSum
    <3> QED BY <3>1, <3>2, <3>3, <3>4, PoolIsSum
  <2>6. Li!Pool \in Int /\ shares[h] \in Nat
    BY <1>0, PoolNumber
  <2>7. Li!OnTheWay' \subseteq Li!OnTheWay \ {o \in {h} : kind[h] = "remove"}
    <3>1. \A o \in Requests : kind'[o] = "remove" /\ (pc'[o] = "checked" \/ Queued(o)') => o \in Li!OnTheWay
      BY <2>1, Removals DEF EngineEffect
    <3>2. kind[h] = "remove" => ~(pc'[h] = "checked" \/ Queued(h)')
      BY <2>1 DEF EngineEffect, QueuedOnce
    <3> QED BY <3>1, <3>2, Removals
  <2>8. overlapped' = overlapped /\ shares' = shares
    BY <2>1 DEF EngineEffect
  <2>9. CASE kind[h] = "add"
    <3>1. Li!Pool' >= Li!Pool /\ Li!Pool' \in Int
      BY <2>3, <2>5, <2>6, <2>9
    <3>2. \A o \in Li!OnTheWay : shares[o] \in Int
      BY <1>0, Removals
    <3> QED BY <2>6, <2>7, <2>8, <3>1, <3>2 DEF PoolKept
  <2>10. CASE kind[h] # "add"
    <3>1. kind[h] = "remove" /\ h \in Li!OnTheWay
      BY <1>0, <2>1, <2>10, Removals DEF EngineEffect
    <3>2. Li!Pool' = Li!Pool - shares[h]
      BY <2>3, <2>5, <2>6, <2>10
    <3>3. ASSUME overlapped = {} PROVE Li!Pool' > 0 /\ Li!OnTheWay' = {}
      BY <2>6, <2>7, <3>1, <3>2, <3>3 DEF PoolKept
    <3> QED BY <2>8, <3>3 DEF PoolKept
  <2> QED BY <2>9, <2>10
<1>4. CASE Li!KeyExpire
  <2>1. UNCHANGED <<kind, user, pc, shares, inbox, tokens, resp, answer, overlapped>>
    BY <1>4, ExpireEffects
  <2>2. Li!OnTheWay' = Li!OnTheWay
    BY <2>1, Removals, QueueSame
  <2> QED BY <1>1, <2>1, <2>2, PoolSame
<1> QED BY <1>2, <1>3, <1>4, LiquidityNext

-------------------------------------------------------------------------------
(* Together *)

LEMMA LiquidityStutter ==
    ASSUME LiquidityInv, UNCHANGED Li!vars
    PROVE  LiquidityInv'
<1>1. UNCHANGED <<kind, user, pc, shares, key, inbox, tokens, resp, answer, freed, overlapped>>
  BY DEF Li!vars
<1>2. LiquidityTyped' /\ QueuedOnce' /\ KeyIsHeld'
  BY <1>1 DEF LiquidityInv, LiquidityTyped, Li!TypeOK, QueuedOnce, Queued, KeyIsHeld
<1>3. UsersKept'
  BY <1>1 DEF LiquidityInv, UsersKept, UserKept, Undisturbed, ServedAlone, Queued
<1>4. Li!Pool' = Li!Pool /\ Li!OnTheWay' = Li!OnTheWay
  BY <1>1, PoolIsSum, Removals, QueueSame
<1>5. PoolKept'
  BY <1>1, <1>4 DEF LiquidityInv, PoolKept
<1> QED BY <1>2, <1>3, <1>5 DEF LiquidityInv

LEMMA LiquidityInvariant == Li!Spec => []LiquidityInv
<1>1. Li!Init => LiquidityInv
  BY LiquidityTypedInit, UsersInit, PoolInit DEF LiquidityInv
<1>2. LiquidityInv /\ [Li!Next]_Li!vars => LiquidityInv'
  BY LiquidityTypedStep, QueuedOnceStep, KeyHeldStep, UsersStep, PoolStep, LiquidityStutter DEF LiquidityInv
<1> QED BY <1>1, <1>2, PTL DEF Li!Spec

LEMMA LiquidityInvImplies == LiquidityInv => Li!TypeOK /\ Li!LiquidityIsOwn
<1> SUFFICES ASSUME LiquidityInv PROVE Li!TypeOK /\ Li!LiquidityIsOwn
  OBVIOUS
<1>1. Li!TypeOK /\ user \in [Requests -> Users] /\ \A u \in Users : tokens[u] \in Int
  BY DEF LiquidityInv, LiquidityTyped, Li!TypeOK
<1>2. Li!OwnAnswer
  <2>1. ASSUME NEW r \in Requests, pc[r] \in {"read", "done"}, answer[r] # r PROVE ~Undisturbed(user[r])
    <3>1. user[r] \in Users /\ ~ServedAlone(r, user[r])
      BY <1>1, <2>1 DEF ServedAlone
    <3> QED BY <3>1 DEF LiquidityInv, UsersKept, UserKept
  <2> QED BY <2>1 DEF Li!OwnAnswer, Undisturbed
<1>3. Li!OwnShares
  <2>1. ASSUME NEW u \in Users, tokens[u] < 0 PROVE ~Undisturbed(u)
    <3>1. ~(tokens[u] >= 0)
      BY <1>1, <2>1
    <3> QED BY <3>1 DEF LiquidityInv, UsersKept, UserKept
  <2> QED BY <2>1 DEF Li!OwnShares, Undisturbed
<1>4. Li!PoolKeepsLiquidity
  BY DEF LiquidityInv, PoolKept, Li!PoolKeepsLiquidity
<1> QED BY <1>1, <1>2, <1>3, <1>4 DEF Li!LiquidityIsOwn

LEMMA LiquidityOwnKept == Li!Spec => []Li!LiquidityIsOwn
BY LiquidityInvariant, LiquidityInvImplies, PTL

LEMMA LiquidityTypesKept == Li!Spec => []Li!TypeOK
BY LiquidityInvariant, LiquidityInvImplies, PTL

-------------------------------------------------------------------------------
(* PAGE.  Once it is asked for, nothing that the page is made of changes, so *)
(* that its rows stay those of the calls (PageInv).  What a row says is then *)
(* an identity about sums, by induction over the calls (PayoffSum).          *)

OddsRows == {Pa!StandaloneRow(e) : e \in Pa!Standalone}
            \union {Pa!ChildRow(e) : e \in UNION {Pa!Children(p) : p \in Pa!Parents}}

PageInv == Pa!TypeOK /\ page \subseteq OddsRows /\ (page # {} => asked # {})

LEMMA RowEvents ==
    /\ \A e \in listed : Pa!StandaloneRow(e).event = e /\ Pa!ChildRow(e).event = e
    /\ \A row \in OddsRows : row.event \in listed
<1>1. \A e : Pa!StandaloneRow(e).event = e /\ Pa!ChildRow(e).event = e
  BY DEF Pa!StandaloneRow, Pa!ChildRow
<1>2. Pa!Standalone \subseteq listed /\ \A p : Pa!Children(p) \subseteq listed
  BY DEF Pa!Standalone, Pa!Children
<1>3. ASSUME NEW row \in OddsRows PROVE row.event \in listed
  <2>1. CASE \E e \in Pa!Standalone : row = Pa!StandaloneRow(e)
    BY <1>1, <1>2, <2>1
  <2>2. CASE \E p \in Pa!Parents : \E e \in Pa!Children(p) : row = Pa!ChildRow(e)
    BY <1>1, <1>2, <2>2
  <2> QED BY <1>3, <2>1, <2>2 DEF OddsRows
<1> QED BY <1>1, <1>3

LEMMA PageInit == Pa!Init => PageInv
<1> SUFFICES ASSUME Pa!Init PROVE PageInv
  OBVIOUS
<1>1. calls \in Seq([event : Events, side : Pa!Sides, state : Pa!States, coins : Prices, n : Numbers])
  BY DEF Pa!Init
<1> QED BY <1>1 DEF Pa!Init, PageInv, Pa!TypeOK

LEMMA PageStep ==
    ASSUME PageInv, [Pa!Next]_(Pa!vars)
    PROVE  PageInv'
<1>1. CASE Pa!Trade
  <2>1. PICK e \in Events, v \in Pa!Sides, s \in Pa!States, p \in Prices, n \in Numbers :
           calls' = Append(calls, [event |-> e, side |-> v, state |-> s, coins |-> p, n |-> n])
    BY <1>1 DEF Pa!Trade
  <2>2. calls' \in Seq([event : Events, side : Pa!Sides, state : Pa!States, coins : Prices, n : Numbers])
    BY <2>1 DEF PageInv, Pa!TypeOK
  <2>3. page' = {} /\ UNCHANGED <<parent, listed, asked>>
    BY <1>1 DEF Pa!Trade
  <2> QED BY <2>2, <2>3 DEF PageInv, Pa!TypeOK
<1>2. CASE Pa!MmDisplayPage
  BY <1>2 DEF Pa!MmDisplayPage, PageInv, Pa!TypeOK
<1>3. CASE Pa!Rows
  <2>1. UNCHANGED <<parent, listed, calls, asked>> /\ asked # {} /\ page' = OddsRows
    BY <1>3 DEF Pa!Rows, OddsRows
  <2>2. OddsRows' = OddsRows
    BY <2>1 DEF OddsRows, Pa!StandaloneRow, Pa!ChildRow, Pa!Standalone, Pa!Children, Pa!Parents,
                Pa!Contracts, Pa!Invested, Pa!Matched, Pa!Trades, Pa!OppositeNoSum, Pa!Pnl, Pa!Quantity
  <2>3. \A row \in OddsRows : row.event \in Events
    BY RowEvents DEF PageInv, Pa!TypeOK
  <2> QED BY <2>1, <2>2, <2>3 DEF PageInv, Pa!TypeOK
<1>4. CASE UNCHANGED Pa!vars
  <2>1. UNCHANGED <<parent, listed, calls, asked, page>>
    BY <1>4 DEF Pa!vars
  <2>2. OddsRows' = OddsRows
    BY <2>1 DEF OddsRows, Pa!StandaloneRow, Pa!ChildRow, Pa!Standalone, Pa!Children, Pa!Parents,
                Pa!Contracts, Pa!Invested, Pa!Matched, Pa!Trades, Pa!OppositeNoSum, Pa!Pnl, Pa!Quantity
  <2> QED BY <2>1, <2>2 DEF PageInv, Pa!TypeOK
<1> QED BY <1>1, <1>2, <1>3, <1>4 DEF Pa!Next

LEMMA PageInvariant == Pa!Spec => []PageInv
BY PageInit, PageStep, PTL DEF Pa!Spec

-------------------------------------------------------------------------------
(* What a row says *)

\* The contracts of each call, what was paid for it, and what it pays when e wins
Held == [i \in DOMAIN calls |-> calls[i].n]
Paid == [i \in DOMAIN calls |-> calls[i].n * calls[i].coins]
Pays(e) == [j \in DOMAIN calls |-> Pa!Payoff(calls[j], e)]
Wins(c, e) == c.side = (IF c.event = e THEN "Y" ELSE "N")
Winning(e) == {i \in DOMAIN calls : Wins(calls[i], e)}

LEMMA SumsOfCalls ==
    ASSUME NEW C, NEW e
    PROVE  /\ Pa!Contracts(C) = SumOver(Held, C)
           /\ Pa!Invested(C) = SumOver(Paid, C)
           /\ Pa!Total([j \in DOMAIN calls |-> Pa!Payoff(calls[j], e)], C) = SumOver(Pays(e), C)
BY DEF Pa!Contracts, Pa!Invested, Pa!Total, Held, Paid, Pays, SumOver, Pa!FoldFunctionOnSet,
       Pa!MapThenFoldSet, FoldFunctionOnSet, MapThenFoldSet

LEMMA CallNumbers ==
    ASSUME PageInv
    PROVE  /\ IsFiniteSet(DOMAIN calls)
           /\ \A i \in DOMAIN calls :
                 /\ calls[i].event \in Events /\ calls[i].side \in Pa!Sides
                 /\ Held[i] \in Int /\ Paid[i] \in Int
                 /\ \A e : Pays(e)[i] = (IF Wins(calls[i], e) THEN 100 * Held[i] ELSE 0) - Paid[i]
<1> DEFINE Call == [event : Events, side : Pa!Sides, state : Pa!States, coins : Prices, n : Numbers]
<1>1. calls \in Seq(Call)
  BY DEF PageInv, Pa!TypeOK
<1>2. IsFiniteSet(DOMAIN calls)
  <2>1. Len(calls) \in Nat /\ DOMAIN calls = 1 .. Len(calls)
    BY <1>1
  <2>2. IsFiniteSet(1 .. Len(calls))
    BY <2>1, FS_Interval
  <2> QED BY <2>1, <2>2
<1>3. ASSUME NEW i \in DOMAIN calls
      PROVE  /\ calls[i].event \in Events /\ calls[i].side \in Pa!Sides
             /\ Held[i] \in Int /\ Paid[i] \in Int
             /\ \A e : Pays(e)[i] = (IF Wins(calls[i], e) THEN 100 * Held[i] ELSE 0) - Paid[i]
  <2>1. calls[i] \in Call
    <3> HIDE DEF Call
    <3> QED BY <1>1
  <2>2. calls[i].n \in Numbers /\ calls[i].coins \in Prices
    BY <2>1
  <2>3. calls[i].n \in Int /\ calls[i].coins \in Int
    <3>1. Numbers \subseteq Int /\ Prices \subseteq Int
      BY PageAssumption
    <3> QED BY <2>2, <3>1
  <2>4. \A m, k \in Int : m * k \in Int /\ m * k = k * m
    OBVIOUS
  <2>5. /\ Held[i] = calls[i].n /\ Paid[i] = calls[i].n * calls[i].coins
        /\ \A e : Pays(e)[i] = Pa!Payoff(calls[i], e)
    BY DEF Held, Paid, Pays
  <2>6. Paid[i] \in Int /\ calls[i].coins * calls[i].n = Paid[i]
    BY <2>3, <2>4, <2>5
  <2> QED BY <2>1, <2>3, <2>5, <2>6 DEF Pa!Payoff, Pa!Full, Wins
<1> QED BY <1>2, <1>3

\* What a set of calls pays is the value of the contracts that win less what was paid.
LEMMA PayoffSum ==
    ASSUME PageInv, NEW e, NEW M, M \subseteq DOMAIN calls
    PROVE  SumOver(Pays(e), M) = 100 * SumOver(Held, M \intersect Winning(e)) - SumOver(Paid, M)
<1> DEFINE P == {s \in SUBSET M :
                   SumOver(Pays(e), s) = 100 * SumOver(Held, s \intersect Winning(e)) - SumOver(Paid, s)}
<1>1. IsFiniteSet(M)
  BY CallNumbers, FS_Subset
<1>2. {} \in P
  <2>1. {} \intersect Winning(e) = {}
    OBVIOUS
  <2> QED BY <2>1, SumEmpty
<1>3. ASSUME NEW s \in SUBSET M, NEW x \in M \ s, s \in P PROVE s \union {x} \in P
  <2>1. PICK t : t = s \intersect Winning(e)
    OBVIOUS
  <2>2. IsFiniteSet(s) /\ IsFiniteSet(t) /\ x \notin s /\ x \notin t
    BY <1>1, <2>1, FS_Subset
  <2>3. Held[x] \in Int /\ Paid[x] \in Int
        /\ Pays(e)[x] = (IF Wins(calls[x], e) THEN 100 * Held[x] ELSE 0) - Paid[x]
    BY CallNumbers
  <2>4. /\ \A y \in s : Pays(e)[y] \in Int /\ Paid[y] \in Int
        /\ \A y \in t : Held[y] \in Int
    BY <2>1, CallNumbers
  <2>5. SumOver(Pays(e), s \union {x}) = Pays(e)[x] + SumOver(Pays(e), s)
    BY <2>2, <2>3, <2>4, SumAdd
  <2>6. SumOver(Paid, s \union {x}) = Paid[x] + SumOver(Paid, s)
    BY <2>2, <2>3, <2>4, SumAdd
  <2>7. SumOver(Paid, s) \in Int /\ SumOver(Held, t) \in Int
    BY <2>2, <2>4, SumType
  <2>8. SumOver(Pays(e), s) = 100 * SumOver(Held, t) - SumOver(Paid, s)
    BY <1>3, <2>1
  <2>9. SumOver(Held, (s \union {x}) \intersect Winning(e))
          = IF Wins(calls[x], e) THEN Held[x] + SumOver(Held, t) ELSE SumOver(Held, t)
    <3>1. CASE Wins(calls[x], e)
      <4>1. (s \union {x}) \intersect Winning(e) = t \union {x}
        BY <2>1, <3>1 DEF Winning
      <4> QED BY <2>2, <2>3, <2>4, <3>1, <4>1, SumAdd
    <3>2. CASE ~Wins(calls[x], e)
      <4>1. (s \union {x}) \intersect Winning(e) = t
        BY <2>1, <3>2 DEF Winning
      <4> QED BY <3>2, <4>1
    <3> QED BY <3>1, <3>2
  <2> QED BY <2>3, <2>5, <2>6, <2>7, <2>8, <2>9
<1>4. M \in P
  BY <1>1, <1>2, <1>3, FiniteInduction
<1> QED BY <1>4

-------------------------------------------------------------------------------
\* The calls that a row is about
Mine(e) == {j \in DOMAIN calls : calls[j].event \in Pa!Family(e) /\ calls[j].state = "matched"}

LEMMA StandaloneIsPayoff ==
    ASSUME PageInv, NEW e \in Pa!Standalone, Pa!Family(e) \subseteq asked \intersect listed,
           parent[e] > 0 => parent[e] \in listed
    PROVE  Pa!StandaloneRow(e).profitYes = SumOver(Pays(e), Mine(e))
<1>1. e \in listed /\ e \in Events /\ parent \in [Events -> Int]
  BY PageAssumption DEF Pa!Standalone, PageInv, Pa!TypeOK
<1>2. parent[e] = 0
  <2>1. ASSUME parent[e] > 0 PROVE parent[e] \in Pa!Parents
    BY <1>1, <2>1, PageAssumption DEF PageInv, Pa!TypeOK, Pa!Parents
  <2> QED BY <2>1 DEF Pa!Standalone
<1>3. Pa!Family(e) = {e} /\ e \in asked
  BY <1>1, <1>2 DEF Pa!Family
<1>4. Pa!Matched({e}, Pa!Sides) = Mine(e)
  BY <1>3, CallNumbers DEF Pa!Matched, Pa!Trades, Mine
<1>5. Pa!Matched({e}, {"Y"}) = Mine(e) \intersect Winning(e)
  BY <1>3 DEF Pa!Matched, Pa!Trades, Mine, Winning, Wins
<1>6. Pa!StandaloneRow(e).profitYes
        = 100 * Pa!Contracts(Pa!Matched({e}, {"Y"})) - Pa!Invested(Pa!Matched({e}, Pa!Sides))
  BY DEF Pa!StandaloneRow, Pa!Full
<1>7. Mine(e) \subseteq DOMAIN calls
  BY DEF Mine
<1>8. SumOver(Pays(e), Mine(e)) = 100 * SumOver(Held, Mine(e) \intersect Winning(e)) - SumOver(Paid, Mine(e))
  BY <1>7, PayoffSum
<1>9. /\ Pa!Contracts(Mine(e) \intersect Winning(e)) = SumOver(Held, Mine(e) \intersect Winning(e))
      /\ Pa!Invested(Mine(e)) = SumOver(Paid, Mine(e))
  BY SumsOfCalls
<1> QED BY <1>4, <1>5, <1>6, <1>8, <1>9

LEMMA ChildIsPayoff ==
    ASSUME PageInv, NEW p \in Pa!Parents, NEW e \in Pa!Children(p),
           Pa!Family(e) \subseteq asked \intersect listed
    PROVE  Pa!ChildRow(e).profitYes = SumOver(Pays(e), Mine(e))
<1>1. /\ e \in listed /\ e \in Events /\ parent[e] = p /\ p > 0
      /\ listed \subseteq Events
  BY PageAssumption DEF Pa!Children, Pa!Parents, PageInv, Pa!TypeOK
<1>2. Pa!Family(e) = Pa!Children(p) /\ Pa!Children(p) \subseteq asked
  BY <1>1 DEF Pa!Family, Pa!Children
<1>3. Pa!Matched(Pa!Children(p), Pa!Sides) = Mine(e)
  BY <1>2, CallNumbers DEF Pa!Matched, Pa!Trades, Mine
<1>4. PICK own : own = Pa!Matched({e}, {"Y"})
  OBVIOUS
<1>5. PICK others : others = Pa!Matched(Pa!Children(p) \ {e}, {"N"})
  OBVIOUS
<1>6. /\ own \union others = Mine(e) \intersect Winning(e)
      /\ own \intersect others = {} /\ own \subseteq DOMAIN calls /\ others \subseteq DOMAIN calls
  BY <1>2, <1>4, <1>5, CallNumbers DEF Pa!Matched, Pa!Trades, Mine, Winning, Wins
<1>7. SumOver(Held, own \union others) = SumOver(Held, own) + SumOver(Held, others)
  <2>1. IsFiniteSet(own) /\ IsFiniteSet(others)
    BY <1>6, CallNumbers, FS_Subset
  <2>2. \A x \in own \union others : Held[x] \in Int
    BY <1>6, CallNumbers
  <2> QED BY <1>6, <2>1, <2>2, SumUnion
<1>8. Pa!ChildRow(e).profitYes
        = 100 * (Pa!Contracts(own) + Pa!Contracts(others)) - Pa!Invested(Mine(e))
  BY <1>1, <1>3, <1>4, <1>5 DEF Pa!ChildRow, Pa!Full, Pa!OppositeNoSum
<1>9. Mine(e) \subseteq DOMAIN calls
  BY DEF Mine
<1>10. SumOver(Pays(e), Mine(e)) = 100 * SumOver(Held, Mine(e) \intersect Winning(e)) - SumOver(Paid, Mine(e))
  BY <1>9, PayoffSum
<1>11. /\ Pa!Contracts(own) = SumOver(Held, own) /\ Pa!Contracts(others) = SumOver(Held, others)
       /\ Pa!Invested(Mine(e)) = SumOver(Paid, Mine(e))
  BY SumsOfCalls
<1> QED BY <1>6, <1>7, <1>8, <1>10, <1>11

LEMMA PageInvImplies == PageInv => Pa!ProfitIsPayoff
<1> SUFFICES ASSUME PageInv, NEW row \in page,
                    Pa!Family(row.event) \subseteq asked \intersect listed,
                    parent[row.event] > 0 => parent[row.event] \in listed
             PROVE  row.profitYes = SumOver(Pays(row.event), Mine(row.event))
  BY SumsOfCalls DEF Pa!ProfitIsPayoff, Mine
<1>1. row \in OddsRows
  BY DEF PageInv
<1>2. CASE \E e \in Pa!Standalone : row = Pa!StandaloneRow(e)
  <2>1. PICK e \in Pa!Standalone : row = Pa!StandaloneRow(e)
    BY <1>2
  <2>2. row.event = e
    BY <2>1, RowEvents DEF Pa!Standalone
  <2> QED BY <2>1, <2>2, StandaloneIsPayoff
<1>3. CASE \E p \in Pa!Parents : \E e \in Pa!Children(p) : row = Pa!ChildRow(e)
  <2>1. PICK p \in Pa!Parents : \E e \in Pa!Children(p) : row = Pa!ChildRow(e)
    BY <1>3
  <2>2. PICK e \in Pa!Children(p) : row = Pa!ChildRow(e)
    BY <2>1
  <2>3. row.event = e
    BY <2>2, RowEvents DEF Pa!Children
  <2> QED BY <2>2, <2>3, ChildIsPayoff
<1> QED BY <1>1, <1>2, <1>3 DEF OddsRows

LEMMA ProfitKept == Pa!Spec => []Pa!ProfitIsPayoff
BY PageInvariant, PageInvImplies, PTL

LEMMA PageTypesKept == Pa!Spec => []Pa!TypeOK
<1>1. PageInv => Pa!TypeOK
  BY DEF PageInv
<1> QED BY <1>1, PageInvariant, PTL
-------------------------------------------------------------------------------
(* Each component is one part of the composed behaviours: where part names   *)
(* it, they are its behaviours.                                              *)

LEMMA PageIsPart ==
    /\ Init => (part = "page" => Pa!Init)
    /\ [Next]_vars => ((part = "page")' <=> part = "page")
    /\ part = "page" /\ [Next]_vars => [Pa!Next]_(Pa!vars)
BY DEF Init, Next, vars, Pa!vars, ofPage, ofPageAndMarket, ofMarketAndLiquidity, ofMarket, ofLiquidity

LEMMA MarketIsPart ==
    /\ Init => (part = "market" => Mk!Init)
    /\ [Next]_vars => ((part = "market")' <=> part = "market")
    /\ part = "market" /\ [Next]_vars => [Mk!Next]_(Mk!vars)
BY DEF Init, Next, vars, Mk!vars, ofPage, ofPageAndMarket, ofMarketAndLiquidity, ofMarket, ofLiquidity

LEMMA LiquidityIsPart ==
    /\ Init => (part = "liquidity" => Li!Init)
    /\ [Next]_vars => ((part = "liquidity")' <=> part = "liquidity")
    /\ part = "liquidity" /\ [Next]_vars => [Li!Next]_(Li!vars)
BY DEF Init, Next, vars, Li!vars, ofPage, ofPageAndMarket, ofMarketAndLiquidity, ofMarket, ofLiquidity

\* The odds page tells a market maker what its calls pay when the event is settled Yes,
\* for any tree of events, any calls and any choice of events that includes the family.
THEOREM ProfitHolds == (Pa!Spec => []Pa!ProfitIsPayoff) /\ (Spec => []ProfitIsPayoff)
BY ProfitKept, PageIsPart, PTL DEF Spec, Pa!Spec, ProfitIsPayoff

\* Orders of a market maker are covered and its cancellations are waited for, but in the
\* named circumstances, whatever bulks, cancellations and engine steps overlap.
THEOREM MakerOrdersHold == (Mk!Spec => []Mk!MakerOrders) /\ (Spec => []MakerOrders)
BY MakerOrdersKept, MarketIsPart, PTL DEF Spec, Mk!Spec, MakerOrders

\* A provider is answered for its own request and removes only what it has, unless it was
\* disturbed in the named ways, and removals leave the pool some liquidity.
THEOREM LiquidityHolds == (Li!Spec => []Li!LiquidityIsOwn) /\ (Spec => []LiquidityIsOwn)
BY LiquidityOwnKept, LiquidityIsPart, PTL DEF Spec, Li!Spec, LiquidityIsOwn

\* The variables of MarketMaking keep their types.
THEOREM MarketTypeCorrect == Mk!Spec => []Mk!TypeOK
BY MarketTypesKept, PTL
===============================================================================

----------------------------- MODULE MarketMaking -----------------------------
(***************************************************************************)
(* Orders of market makers (marketmaking.controller.js): bulk orders, odds *)
(* orders and cancellations of one user on one event, and the page that    *)
(* lists the events from the cache mmprobes.                               *)
(*                                                                         *)
(* The key put_call_req_<user>_<event> is both the guard against a second  *)
(* request and the signal by which the matching engine (external) tells    *)
(* that it is done: it deletes the key it was sent.  A bulk order has one  *)
(* more key per order.  Every order costs one coin.  Halting is a          *)
(* conditional update of the event's status.                               *)
(***************************************************************************)
EXTENDS Integers, Sequences

CONSTANTS
    Requests,   \* requests of the user and of the dashboard
    Bulk,       \* bound on the orders of a bulk request
    Coins,      \* the user's wallet to begin with
    None        \* no request, nothing cached

Handlers ==
    {"bulk", "bulkOfMM", "cancelAll", "odds", "halt", "display", "script"}
Sides == {"Y", "N"}
Keys == 0 .. Bulk       \* 0 is the key itself, the others are those of a bulk's orders
Order == [id : Nat \ {0}, side : Sides]

VARIABLES
    kind,       \* per request, its handler
    pc,         \* per request: idle, or the step it is at, done, failed
    key,        \* per key, the request that set it or None
    inbox,      \* the matching engine's messages
    open,       \* the open orders, as [id, side]
    last,       \* the id of the last order
    wallet,
    size,       \* per request, the orders of its bulk
    listed,     \* per request, the orders it is to cancel
    todo,       \* per request, those it has not sent yet
    version,    \* of the events' data in the database
    cache,      \* mmprobes: the version cached, or None
    read,       \* per request, the version it has read
    unclear,    \* history: bulks of several orders, or that met another bulk
    several,    \* history: requests that sent more than one cancellation
    freed,      \* history: requests whose key expired or was deleted for another one
    left,       \* history: requests that ended with the key set
    stale       \* history: what is cached may be old: read before a change, or a halt

market == <<inbox, open, last, wallet>>
page == <<version, cache, read>>
history == <<unclear, several, freed, left, stale>>
vars == <<kind, pc, key, market, size, listed, todo, page, history>>

Init ==
    /\ kind \in [Requests -> Handlers]
    /\ pc = [r \in Requests |-> "idle"]
    /\ key = [k \in Keys |-> None]
    /\ inbox = <<>> /\ open = {[id |-> 1, side |-> "N"]} /\ last = 1 /\ wallet = Coins
    /\ size = [r \in Requests |-> 0]
    /\ listed = [r \in Requests |-> {}] /\ todo = [r \in Requests |-> {}]
    /\ version = 0 /\ cache = None /\ read = [r \in Requests |-> 0]
    /\ unclear = {} /\ several = {} /\ freed = {} /\ left = {} /\ stale = FALSE

Guarded == {"bulk", "cancelAll", "odds"}
Step(r, from, to) == pc[r] = from /\ pc' = [pc EXCEPT ![r] = to]

Held == {"set", "checked", "sent", "wait"}
SetKey(k, r) == key' = [key EXCEPT ![k] = r]
\* A key is deleted whoever has set it.
DelKey(k, r) ==
    /\ key' = [key EXCEPT ![k] = None]
    /\ freed' = freed \union {q \in {key[k]} \ {r, None} : pc[q] \in Held}

-------------------------------------------------------------------------------
(* The guard: getKey and setKey are two calls. *)

\* REQUEST_IN_PROGRESS; a bulk order deletes the key on this way out, too.
Guard(r) ==
    /\ kind[r] \in Guarded
    /\ key[0] # None
    /\ Step(r, "idle", "failed")
    /\ IF kind[r] = "bulk" THEN DelKey(0, r) ELSE UNCHANGED <<key, freed>>
    /\ UNCHANGED <<kind, market, size, listed, todo, page, unclear, several, left, stale>>

Pass(r) ==
    /\ kind[r] \in Guarded \union {"bulkOfMM"}
    /\ kind[r] \in Guarded => key[0] = None
    /\ Step(r, "idle", IF kind[r] = "bulkOfMM" THEN "set" ELSE "guard")
    /\ UNCHANGED <<kind, key, market, size, listed, todo, page, history>>

TakeKey(r) ==
    /\ Step(r, "guard", "set")
    /\ SetKey(0, r)
    /\ freed' = freed \union {q \in {key[0]} \ {None} : pc[q] \in Held}
    /\ UNCHANGED <<kind, market, size, listed, todo, page, unclear, several, left, stale>>

-------------------------------------------------------------------------------
(* putCallbulk *)

IsBulk(r) == kind[r] \in {"bulk", "bulkOfMM"}

\* A closed event, a price or a number that is not allowed; finally deletes the key.
RejectBulk(r) ==
    /\ IsBulk(r) /\ Step(r, "set", "failed")
    /\ DelKey(0, r)
    /\ UNCHANGED <<kind, market, size, listed, todo, page, unclear, several, left, stale>>

\* Mutant: the funds are not compared.
CheckFundsNot(r) ==
    /\ IsBulk(r) /\ Step(r, "set", "checked")
    /\ \E n \in 1 .. Bulk : size' = [size EXCEPT ![r] = n]
    /\ UNCHANGED <<kind, key, market, listed, todo, page, history>>

\* INSUFFICIENT_FUNDS: netAmount is that of the last order only.
CheckFunds(r) ==
    /\ IsBulk(r) /\ wallet >= 1
    /\ Step(r, "set", "checked")
    /\ \E n \in 1 .. Bulk :
          /\ size' = [size EXCEPT ![r] = n]
          /\ unclear' = unclear \union {q \in {r} :
                 \/ n > 1
                 \/ \E o \in Requests : o # r /\ IsBulk(o) /\ pc[o] = "checked"
                 \/ \E i \in DOMAIN inbox : inbox[i].cancels = None}
    /\ UNCHANGED <<kind, key, market, listed, todo, page, several, freed, left, stale>>

\* One key per order, and one message for all
SendBulk(r) ==
    /\ IsBulk(r) /\ Step(r, "checked", "wait")
    /\ key' = [k \in Keys |-> IF k \in 1 .. size[r] THEN r ELSE key[k]]
    /\ inbox' = Append(inbox, [by |-> r, cancels |-> None])
    /\ UNCHANGED <<kind, open, last, wallet, size, listed, todo, page, history>>

\* checkAllKeys
BulkDone(r) ==
    /\ IsBulk(r) /\ \A k \in 1 .. size[r] : key[k] = None
    /\ Step(r, "wait", "done")
    /\ DelKey(0, r)
    /\ UNCHANGED <<kind, market, size, listed, todo, page, unclear, several, left, stale>>

-------------------------------------------------------------------------------
(* mmCancelAll and mmCancelOrderAbstraction: Y and then N, order by order *)

ListOrders(r) ==
    /\ kind[r] = "cancelAll" /\ Step(r, "set", "checked")
    /\ \E sides \in {Sides, {"Y"}, {"N"}} :
          /\ todo' = [todo EXCEPT ![r] = {o \in open : o.side \in sides}]
          /\ listed' = [listed EXCEPT ![r] = {o \in open : o.side \in sides}]
    /\ UNCHANGED <<kind, key, market, size, page, history>>

SendCancel(r) ==
    /\ kind[r] = "cancelAll" /\ todo[r] # {}
    /\ Step(r, "checked", "sent")
    /\ \E o \in todo[r] :
          /\ inbox' = Append(inbox, [by |-> r, cancels |-> o])
          /\ todo' = [todo EXCEPT ![r] = @ \ {o}]
    /\ several' = several \union {q \in {r} : listed[r] # todo[r]}
    /\ UNCHANGED <<kind, key, open, last, wallet, size, listed, page, unclear, freed, left, stale>>

\* The key is gone after the first cancellation: the others are not waited for.
CancelSent(r) ==
    /\ kind[r] = "cancelAll" /\ key[0] = None
    /\ Step(r, "sent", "checked")
    /\ UNCHANGED <<kind, key, market, size, listed, todo, page, history>>

CancelAllDone(r) ==
    /\ kind[r] = "cancelAll" /\ todo[r] = {}
    /\ Step(r, "checked", "done")
    /\ DelKey(0, r)
    /\ UNCHANGED <<kind, market, size, listed, todo, page, unclear, several, left, stale>>

\* The catch block answers without deleting the key.
CancelAllFails(r) ==
    /\ kind[r] = "cancelAll" /\ pc[r] \in {"set", "checked", "sent"}
    /\ pc' = [pc EXCEPT ![r] = "failed"]
    /\ left' = left \union {r}
    /\ UNCHANGED <<kind, key, market, size, listed, todo, page, unclear, several, freed, stale>>

\* mmOddsOrder logs shares, which is not declared: it throws with the key set,
\* unless the event is a parent.
OddsOrder(r) ==
    /\ kind[r] = "odds" /\ Step(r, "set", "failed")
    /\ \/ DelKey(0, r) /\ UNCHANGED left
       \/ left' = left \union {r} /\ UNCHANGED <<key, freed>>
    /\ UNCHANGED <<kind, market, size, listed, todo, page, unclear, several, stale>>

-------------------------------------------------------------------------------
(* The page *)

\* mmHaltUnhalt: A to H or H to A; the cache is not deleted.
Halt(r) ==
    /\ kind[r] = "halt" /\ Step(r, "idle", "done")
    /\ version' = version + 1
    /\ stale' = TRUE
    /\ UNCHANGED <<kind, key, market, size, listed, todo, cache, read, unclear, several, freed, left>>

\* mmScriptStatusUpdate: the row, and then the cache
WriteScript(r) ==
    /\ kind[r] = "script" /\ Step(r, "idle", "set")
    /\ version' = version + 1
    /\ UNCHANGED <<kind, key, market, size, listed, todo, cache, read, history>>

Reading == {r \in Requests : kind[r] = "display" /\ pc[r] = "checked"}

DropCache(r) ==
    /\ kind[r] = "script" /\ Step(r, "set", "done")
    /\ cache' = None
    /\ stale' = (Reading # {})
    /\ UNCHANGED <<kind, key, market, size, listed, todo, version, read, unclear, several, freed, left>>

\* mmDisplayPage holds mmprobes_lock from its look at the cache to setKey.
Display(r) ==
    /\ kind[r] = "display" /\ Reading = {}
    /\ Step(r, "idle", IF cache = None THEN "checked" ELSE "done")
    /\ read' = [read EXCEPT ![r] = IF cache = None THEN version ELSE cache]
    /\ UNCHANGED <<kind, key, market, size, listed, todo, version, cache, history>>

CachePage(r) ==
    /\ kind[r] = "display" /\ Step(r, "checked", "done")
    /\ cache' = read[r]
    /\ UNCHANGED <<kind, key, market, size, listed, todo, version, read, history>>

-------------------------------------------------------------------------------
(* The outside *)

NewOrders(n) == {[id |-> last + i, side |-> "Y"] : i \in 1 .. n}

\* External: the matching engine takes a message and deletes its keys.
Match ==
    /\ inbox # <<>>
    /\ inbox' = Tail(inbox)
    /\ LET message == Head(inbox) IN
       IF message.cancels = None
       THEN /\ open' = open \union NewOrders(size[message.by])
            /\ last' = last + size[message.by]
            /\ wallet' = wallet - size[message.by]
            /\ key' = [k \in Keys |-> IF k \in 1 .. size[message.by] THEN None ELSE key[k]]
            /\ UNCHANGED freed
       ELSE /\ open' = open \ {message.cancels}
            /\ wallet' = IF message.cancels \in open THEN wallet + 1 ELSE wallet
            /\ key' = [key EXCEPT ![0] = None]
            /\ freed' = freed \union ({key[0]} \ {None, message.by})
            /\ UNCHANGED last
    /\ UNCHANGED <<kind, pc, size, listed, todo, page, unclear, several, left, stale>>

\* 60 s
KeyExpire ==
    /\ \E k \in Keys : key[k] # None /\ DelKey(k, None)
    /\ UNCHANGED <<kind, pc, market, size, listed, todo, page, unclear, several, left, stale>>

CacheExpire ==
    /\ cache # None
    /\ cache' = None
    /\ stale' = (Reading # {})
    /\ UNCHANGED <<kind, pc, key, market, size, listed, todo, version, read, unclear, several, freed, left>>

Next ==
    \/ \E r \in Requests :
        \/ Guard(r) \/ Pass(r) \/ TakeKey(r) \/ RejectBulk(r) \/ CheckFunds(r) \/ SendBulk(r)
        \/ BulkDone(r) \/ ListOrders(r) \/ SendCancel(r) \/ CancelSent(r) \/ CancelAllDone(r)
        \/ CancelAllFails(r) \/ OddsOrder(r) \/ Halt(r) \/ WriteScript(r) \/ DropCache(r)
        \/ Display(r) \/ CachePage(r)
    \/ Match \/ KeyExpire \/ CacheExpire

Spec == Init /\ [][Next]_vars

-------------------------------------------------------------------------------
(* Properties *)

\* Every variable has its type.
TypeOK ==
    /\ kind \in [Requests -> Handlers]
    /\ pc \in [Requests -> {"idle", "guard", "set", "checked", "sent", "wait", "done", "failed"}]
    /\ key \in [Keys -> Requests \union {None}]
    /\ open \subseteq Order /\ last \in Nat /\ wallet \in Int
    /\ size \in [Requests -> 0 .. Bulk]
    /\ \A r \in Requests : todo[r] \subseteq listed[r]

\* mmCancelAll answers success when the orders it listed are cancelled, unless it had
\* more than one of them to cancel, or its key expired or was deleted for another request.
CancelAllIsDone ==
    \A r \in Requests :
        kind[r] = "cancelAll" /\ pc[r] = "done" /\ r \notin several \union freed
            => listed[r] \intersect open = {}

\* The wallet covers the orders, unless a bulk had more than one of them or met another
\* bulk between its check and its orders.
WalletCovers == wallet < 0 => unclear # {}

\* A market maker's orders are covered by the wallet, and after a cancellation of all
\* of them none of those listed is open.
MakerOrders == WalletCovers /\ CancelAllIsDone
================================================================================

-------------------------------- MODULE Deposit --------------------------------
(***************************************************************************)
(* One deposit: a row of the table payments that a payment gateway's       *)
(* callbacks and the client's own requests turn into a wallet credit.      *)
(*                                                                         *)
(* Eleven handlers do this, for eight gateways.  They are made of the same *)
(* steps, in different orders and with different care: the lock            *)
(* updating_payment_<order>, the test of the row, the update that records  *)
(* the payment (conditional on paymentid being null, or not), a second     *)
(* look at the row, the credit.  Each handler is given here by its steps   *)
(* and by the number of times it unlocks on each way out; redis-lock's     *)
(* unlock deletes the lock whoever holds it.                               *)
(*                                                                         *)
(* The gateway's callback may come several times and at any time after the *)
(* payment; the client may ask at any time.  The coupon, the invoice and   *)
(* the notification that follow the credit are left out, and so is the     *)
(* split of the amount among wallets.  executeTransactions (external) is   *)
(* taken to credit whatever it is given.                                   *)
(***************************************************************************)
EXTENDS Naturals, Sequences, FiniteSets

CONSTANTS
    Handlers,   \* requests for the order: callbacks and client requests
    Gateways,   \* the gateways the order may be placed with
    None        \* no handler, no paymentid

-------------------------------------------------------------------------------
(* The handlers.  steps is the way of a handler that credits; ok, paid, none *)
(* and fail count the unlocks when it has credited, when it finds the payment*)
(* recorded, when its update or second look finds no row, and when it throws.*)

PaymentHook ==
    [steps |-> <<"paid", "lock", "test", "record", "reread", "credit">>,
     pid |-> "payment", ok |-> 1, paid |-> 1, none |-> 1, fail |-> 1]

AddPayment ==
    [steps |-> <<"lock", "test", "ask", "record", "reread", "credit">>,
     pid |-> "order", ok |-> 1, paid |-> 1, none |-> 1, fail |-> 1]

\* unlock() before the return and unlock() in the finally block
PaymentHookJP ==
    [steps |-> <<"paid", "lock", "test", "record", "credit">>,
     pid |-> "order", ok |-> 2, paid |-> 2, none |-> 2, fail |-> 2]

AddPaymentJP ==
    [steps |-> <<"lock", "test", "ask", "record", "credit">>,
     pid |-> "order", ok |-> 2, paid |-> 2, none |-> 2, fail |-> 2]

PaymentHookOnMeta ==
    [steps |-> <<"paid", "lock", "test", "record", "credit">>,
     pid |-> "order", ok |-> 2, paid |-> 2, none |-> 2, fail |-> 2]

GetOnMetaPaymentStatus ==
    [steps |-> <<"ask", "lock", "test", "record", "credit">>,
     pid |-> "order", ok |-> 1, paid |-> 1, none |-> 1, fail |-> 1]

\* the catch block does not know unlock
PaykassmaPostback ==
    [steps |-> <<"paid", "lock", "test", "record", "credit">>,
     pid |-> "payment", ok |-> 1, paid |-> 1, none |-> 1, fail |-> 0]

D24Notification ==
    [steps |-> <<"ask", "lock", "test", "record", "credit">>,
     pid |-> "payment", ok |-> 1, paid |-> 1, none |-> 1, fail |-> 0]

\* a recorded payment unlocks and throws; the finally block unlocks again
LinkQuNotification ==
    [steps |-> <<"paid", "lock", "test", "record", "credit">>,
     pid |-> "payment", ok |-> 1, paid |-> 2, none |-> 1, fail |-> 1]

\* no lock, and an unconditional update
PaymentCallback ==
    [steps |-> <<"paid", "test", "overwrite", "credit">>,
     pid |-> "payment", ok |-> 0, paid |-> 0, none |-> 0, fail |-> 0]

\* the row it tests was read before it had the lock
GetStatusAndAddToTxns ==
    [steps |-> <<"ask", "read", "lock", "recall", "overwrite", "credit">>,
     pid |-> "payment", ok |-> 1, paid |-> 1, none |-> 1, fail |-> 0]

HandlersOf ==
    [cashfree  |-> {PaymentHook, AddPayment},
     juspay    |-> {PaymentHookJP, AddPaymentJP},
     onmeta    |-> {PaymentHookOnMeta, GetOnMetaPaymentStatus},
     paykassma |-> {PaykassmaPostback},
     direct24  |-> {D24Notification},
     linkqu    |-> {LinkQuNotification},
     callback  |-> {PaymentCallback},
     decentro  |-> {GetStatusAndAddToTxns}]

VARIABLES
    gateway,    \* the gateway the order was placed with
    outcome,    \* what has become of the payment there: open, paid, failed
    plan,       \* per request, the handler that serves it
    pc,         \* per request: idle, run (its steps), exit (its unlocks), done
    at,         \* per request, the step it is at
    left,       \* per request, the unlocks left on its way out
    seen,       \* per request, whether the row it has read was recorded
    recorded,   \* the row: its paymentid (status C for decentro) or None
    lock,       \* updating_payment_<order>: the request that holds it or None
    recorder,   \* history: the requests whose update recorded the payment
    credited,   \* history: the requests that executed the credit
    lapsed,     \* history: the lock expired under a running request
    stolen,     \* history: an unlock took the lock of another request
    dropped     \* history: a request ended between its record and its credit

row == <<gateway, outcome, plan>>
history == <<recorder, credited, lapsed, stolen, dropped>>
vars == <<row, pc, at, left, seen, recorded, lock, history>>

Init ==
    /\ gateway \in Gateways
    /\ outcome = "open"
    /\ plan \in [Handlers -> HandlersOf[gateway]]
    /\ pc = [h \in Handlers |-> "idle"] /\ at = [h \in Handlers |-> 1]
    /\ left = [h \in Handlers |-> 0]
    /\ seen = [h \in Handlers |-> FALSE]
    /\ recorded = None
    /\ lock = None
    /\ recorder = {} /\ credited = {}
    /\ lapsed = FALSE /\ stolen = FALSE /\ dropped = FALSE

Running(h) == pc[h] = "run"
IsAt(h, step) == Running(h) /\ plan[h].steps[at[h]] = step

Goto(h, place) == pc' = [pc EXCEPT ![h] = place] /\ UNCHANGED at
Leave(h, unlocks) == Goto(h, "exit") /\ left' = [left EXCEPT ![h] = unlocks]
Go(h) ==
    IF at[h] = Len(plan[h].steps)
    THEN Leave(h, plan[h].ok)
    ELSE at' = [at EXCEPT ![h] = @ + 1] /\ UNCHANGED <<pc, left>>

-------------------------------------------------------------------------------
(* The steps *)

\* A callback, or a client's request, arrives.
Arrive(h) ==
    /\ pc[h] = "idle"
    /\ Goto(h, "run")
    /\ UNCHANGED <<row, left, seen, recorded, lock, history>>

\* The callback reports a success: other reports are answered and forgotten.
Paid(h) ==
    /\ IsAt(h, "paid") /\ outcome = "paid"
    /\ Go(h)
    /\ UNCHANGED <<row, seen, recorded, lock, history>>

\* The gateway is asked.
Ask(h) ==
    /\ IsAt(h, "ask")
    /\ IF outcome = "paid"
       THEN Go(h)
       ELSE Leave(h, IF lock = h THEN 1 ELSE 0)
    /\ UNCHANGED <<row, seen, recorded, lock, history>>

Lock(h) ==
    /\ IsAt(h, "lock") /\ lock = None
    /\ lock' = h
    /\ Go(h)
    /\ UNCHANGED <<row, seen, recorded, history>>

\* getPayment, and the return when the payment is recorded
Test(h) ==
    /\ IsAt(h, "test")
    /\ IF recorded = None THEN Go(h) ELSE Leave(h, plan[h].paid)
    /\ UNCHANGED <<row, seen, recorded, lock, history>>

\* Payments.get of getStatusAndAddToTxns, and the look at its result later
Read(h) ==
    /\ IsAt(h, "read")
    /\ seen' = [seen EXCEPT ![h] = recorded # None]
    /\ Go(h)
    /\ UNCHANGED <<row, recorded, lock, history>>

Recall(h) ==
    /\ IsAt(h, "recall")
    /\ IF seen[h] THEN Leave(h, plan[h].paid) ELSE Go(h)
    /\ UNCHANGED <<row, seen, recorded, lock, history>>

\* Mutant: where paymentid is null is left out.
RecordAlways(h) ==
    /\ IsAt(h, "record")
    /\ recorded' = plan[h].pid
    /\ recorder' = recorder \union {h}
    /\ Go(h)
    /\ UNCHANGED <<row, seen, lock, credited, lapsed, stolen, dropped>>

\* update payments set paymentid = ? where orderid = ? and paymentid is null; a
\* handler that does not look at the row again wants it returned.
Record(h) ==
    /\ IsAt(h, "record")
    /\ IF recorded = None
       THEN /\ recorded' = plan[h].pid
            /\ recorder' = recorder \union {h}
            /\ Go(h)
       ELSE /\ IF plan[h].steps[at[h] + 1] = "reread"
               THEN Go(h)
               ELSE Leave(h, plan[h].none)
            /\ UNCHANGED <<recorded, recorder>>
    /\ UNCHANGED <<row, seen, lock, credited, lapsed, stolen, dropped>>

\* update payments where orderid = ?
Overwrite(h) ==
    /\ IsAt(h, "overwrite")
    /\ recorded' = plan[h].pid
    /\ recorder' = recorder \union {h}
    /\ Go(h)
    /\ UNCHANGED <<row, seen, lock, credited, lapsed, stolen, dropped>>

\* Mutant: the second look asks for the order's id.
RereadByOrder(h) ==
    /\ IsAt(h, "reread")
    /\ IF recorded = "order" THEN Go(h)
                             ELSE Leave(h, plan[h].none)
    /\ UNCHANGED <<row, seen, recorded, lock, history>>

\* getPayment by order and paymentid: the row, if it has this paymentid, whoever
\* wrote it
Reread(h) ==
    /\ IsAt(h, "reread")
    /\ IF recorded = plan[h].pid THEN Go(h)
                                 ELSE Leave(h, plan[h].none)
    /\ UNCHANGED <<row, seen, recorded, lock, history>>

\* executeTransactions
Credit(h) ==
    /\ IsAt(h, "credit")
    /\ credited' = credited \union {h}
    /\ Go(h)
    /\ UNCHANGED <<row, seen, recorded, lock, recorder, lapsed, stolen, dropped>>

\* An unlock deletes the lock, whoever holds it.
Unlock(h) ==
    /\ pc[h] = "exit" /\ left[h] > 0
    /\ left' = [left EXCEPT ![h] = @ - 1]
    /\ lock' = None
    /\ stolen' = (stolen \/ lock \notin {None, h})
    /\ UNCHANGED <<row, pc, at, seen, recorded, recorder, credited, lapsed, dropped>>

Return(h) ==
    /\ pc[h] = "exit" /\ left[h] = 0
    /\ Goto(h, "done")
    /\ UNCHANGED <<row, left, seen, recorded, lock, history>>

-------------------------------------------------------------------------------
(* Failures and the outside *)

HasLocked(h) == \E i \in 1 .. at[h] - 1 : plan[h].steps[i] = "lock"
Owes(h) == Running(h) /\ h \in recorder \ credited

\* An awaited call throws.
Throw(h) ==
    /\ Running(h)
    /\ Leave(h, IF HasLocked(h) THEN plan[h].fail ELSE 0)
    /\ dropped' = (dropped \/ Owes(h))
    /\ UNCHANGED <<row, seen, recorded, lock, recorder, credited, lapsed, stolen>>

\* The process stops.
Crash(h) ==
    /\ pc[h] \in {"run", "exit"}
    /\ Goto(h, "done")
    /\ dropped' = (dropped \/ Owes(h))
    /\ UNCHANGED <<row, left, seen, recorded, lock, recorder, credited, lapsed, stolen>>

LockExpire ==
    /\ lock # None
    /\ lock' = None
    /\ lapsed' = (lapsed \/ Running(lock) \/ (pc[lock] = "exit" /\ left[lock] > 0))
    /\ UNCHANGED <<row, pc, at, left, seen, recorded, recorder, credited, stolen, dropped>>

\* External: the gateway decides.
Decide ==
    /\ outcome = "open"
    /\ outcome' \in {"paid", "failed"}
    /\ UNCHANGED <<gateway, plan, pc, at, left, seen, recorded, lock, history>>

Step(h) ==
    \/ Arrive(h) \/ Paid(h) \/ Ask(h) \/ Lock(h) \/ Test(h) \/ Read(h) \/ Recall(h)
    \/ Record(h) \/ Overwrite(h) \/ Reread(h) \/ Credit(h)
    \/ Unlock(h) \/ Return(h) \/ Throw(h) \/ Crash(h)

Next == (\E h \in Handlers : Step(h)) \/ LockExpire \/ Decide

Spec == Init /\ [][Next]_vars

-------------------------------------------------------------------------------
(* Properties *)

\* Every variable has its type.
TypeOK ==
    /\ gateway \in Gateways /\ outcome \in {"open", "paid", "failed"}
    /\ plan \in [Handlers -> HandlersOf[gateway]]
    /\ pc \in [Handlers -> {"idle", "run", "exit", "done"}]
    /\ at \in [Handlers -> Nat] /\ \A h \in Handlers : at[h] \in 1 .. Len(plan[h].steps)
    /\ left \in [Handlers -> 0 .. 2] /\ seen \in [Handlers -> BOOLEAN]
    /\ recorded \in {None, "payment", "order"} /\ lock \in Handlers \union {None}
    /\ recorder \subseteq Handlers /\ credited \subseteq Handlers
    /\ lapsed \in BOOLEAN /\ stolen \in BOOLEAN /\ dropped \in BOOLEAN

AtMostOne(S) == \A g, h \in S : g = h

\* A deposit is credited at most once, however often the gateway calls back and
\* whatever happens to the lock: the conditional update decides.  It does not
\* decide for cashfree, whose handlers look at the row again and may find what
\* another recorded: there the lock must not expire under a request.  The two
\* handlers without a conditional update credit twice.
CreditedOnce ==
    gateway \notin {"callback", "decentro"} /\ (gateway = "cashfree" => ~lapsed)
        => AtMostOne(credited)

\* A recorded deposit has been credited once no request is on its way to credit
\* it, unless one that had recorded it failed or stopped before its credit: then
\* every later request takes it for done.
RecordedIsCredited ==
    recorded # None /\ ~dropped /\ (\A h \in Handlers : ~Owes(h)) => credited # {}

\* 'Payment already registered for orderid' (payments.controller.js:257): a deposit
\* that has been registered is not credited again.
RegisteredOnce == AtMostOne(credited)
================================================================================

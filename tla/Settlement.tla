------------------------------ MODULE Settlement ------------------------------
(***************************************************************************)
(* The settlement of one event: settle() of controllers/settlement.js, run *)
(* in a forked process by the event update handler, with the reset of a    *)
(* settled event (handleEventReset of probe.controller.js).                *)
(*                                                                         *)
(* The run reads the matched calls, then the open calls, computes per user *)
(* what was won and what must be refunded, copies the open calls to the    *)
(* closed ones, deletes them, and then pays user by user.  None of this is *)
(* one database transaction.  The process may stop between any two steps   *)
(* and the settlement be started again: settlement credits look for an     *)
(* earlier transaction of the same id, refunds do not.                     *)
(*                                                                         *)
(* Orders the matching engine handles late (it knows no freeze) interleave *)
(* with the run.  EventLifecycle shows why one run of an event is active   *)
(* at a time.  Fees, liquidity pools, notifications and the portfolio      *)
(* history are left out.                                                   *)
(***************************************************************************)
EXTENDS Integers, FiniteSets, Functions

CONSTANTS
    Users,
    Orders,     \* the orders of the event
    Matched,    \* those in probecalls with status A when settlement starts
    Holding,    \* open ones put up for sale (status H): still owned, in probecallsopen
    Late,       \* orders the matching engine has not inserted yet
    UserOf,     \* the user of each order
    SideOf,     \* "Y" or "N", its callvalue
    CostOf,     \* coins * noofcontracts
    ReturnOf,   \* totalamount * noofcontracts, if the side is the correct value
    MaxRuns     \* bound on the settlements started

Sides == {"Y", "N"}

VARIABLES
    status,     \* the event's status: A (active), F (frozen), C, RST
    value,      \* the correct value of the last settlement
    pc,         \* where the settlement process is
    refundOnly, \* data.settlement is false: only the open calls are refunded
    calls,      \* rows of probecalls that settlement counts, per order
    open,       \* rows of probecallsopen
    closed,     \* orders copied to probecalls with rank -1
    won,        \* userData: what each user won
    unsettled,  \* userData: what each user gets back for unmatched orders
    tallied,    \* the open orders the run has read
    todo,       \* users not paid yet by this run
    credited,   \* per user, the amounts of its settlement transactions, summed
    paid,       \* users with a settlement transaction (txnid S...)
    refunded,   \* per user, the amounts of its refund transactions, summed
    runs,       \* settlements started
    crashedAt,  \* history: the steps at which a run has crashed
    raced,      \* history: orders the engine touched too late (Race)
    resetFailed, \* history: a reset could not reverse the settlement
    revalued    \* history: a half-paid settlement was repeated for another value

tables == <<calls, open, closed>>
tally == <<won, unsettled, tallied, todo>>
ledger == <<credited, paid, refunded>>
history == <<runs, crashedAt, raced, resetFailed, revalued>>
vars == <<status, value, pc, refundOnly, tables, tally, ledger, history>>

Total(f, S) == FoldFunctionOnSet(+, 0, f, S)
OrdersOf(u, S) == {o \in S : UserOf[o] = u}
Nothing == [u \in Users |-> 0]

Init ==
    /\ status = "A"
    /\ value = "Y"
    /\ pc = "idle"
    /\ refundOnly = FALSE
    /\ calls = [o \in Orders |-> IF o \in Matched THEN 1 ELSE 0]
    /\ open = Orders \ (Matched \union Late)
    /\ closed = {}
    /\ won = Nothing /\ unsettled = Nothing /\ tallied = {} /\ todo = {}
    /\ credited = Nothing /\ paid = {} /\ refunded = Nothing
    /\ runs = 0 /\ crashedAt = {} /\ raced = {}
    /\ resetFailed = FALSE /\ revalued = FALSE

-------------------------------------------------------------------------------
(* The matching engine, finishing requests that passed putCall's checks      *)

\* Too late for the run, for the event, or for a user whom a run that broke off
\* has paid.
Race(o) ==
    raced' = IF pc \in {"idle", "start"} /\ status # "C" /\ UserOf[o] \notin paid THEN raced
             ELSE raced \union {o}

\* It inserts an order nothing matches.
LateOrder(o) ==
    /\ o \in Late \ (open \union closed \union raced) /\ calls[o] = 0
    /\ open' = open \union {o}
    /\ Race(o)
    /\ UNCHANGED <<status, value, pc, refundOnly, calls, closed, tally, ledger,
                   runs, crashedAt, resetFailed, revalued>>

\* It matches an open order, which moves to probecalls.
LateMatch(o) ==
    /\ o \in open \ Holding
    /\ open' = open \ {o}
    /\ calls' = [calls EXCEPT ![o] = 1]
    /\ Race(o)
    /\ UNCHANGED <<status, value, pc, refundOnly, closed, tally, ledger,
                   runs, crashedAt, resetFailed, revalued>>

-------------------------------------------------------------------------------
(* settle()                                                                  *)

\* update freezes the event, waits, and forks the settlement for a value.
StartSettle(v) ==
    /\ pc = "idle" /\ status # "C" /\ runs < MaxRuns
    /\ status' = "F"
    /\ value' = v
    /\ refundOnly' = FALSE
    /\ pc' = "start"
    /\ runs' = runs + 1
    /\ revalued' = (revalued \/ (paid # {} /\ v # value))
    /\ UNCHANGED <<tables, tally, ledger, crashedAt, raced, resetFailed>>

\* data.settlement === false: the market closes and open orders are refunded.
StartRefund ==
    /\ pc = "idle" /\ status = "A" /\ runs < MaxRuns
    /\ refundOnly' = TRUE
    /\ pc' = "readOpen"
    /\ won' = Nothing
    /\ runs' = runs + 1
    /\ UNCHANGED <<status, value, tables, unsettled, tallied, todo, ledger,
                   crashedAt, raced, resetFailed, revalued>>

\* getProbeCallsWithUsers: every counted row of the correct value has won.
ReadMatched ==
    /\ pc = "start"
    /\ pc' = "readOpen"
    /\ won' = [u \in Users |->
                Total([o \in Orders |-> calls[o] * ReturnOf[o]],
                      {o \in OrdersOf(u, Orders) : SideOf[o] = value})]
    /\ UNCHANGED <<status, value, refundOnly, tables, unsettled, tallied, todo,
                   ledger, history>>

\* getProbeCallsOpen: an order up for sale wins like a matched one, the others
\* are unmatched.
ReadOpen ==
    /\ pc = "readOpen"
    /\ pc' = "copy"
    /\ tallied' = open
    /\ won' = IF refundOnly THEN won
              ELSE [u \in Users |-> won[u] +
                     Total(ReturnOf, {o \in OrdersOf(u, open \intersect Holding) :
                                         SideOf[o] = value})]
    /\ unsettled' = [u \in Users |-> Total(CostOf, OrdersOf(u, open \ Holding))]
    /\ todo' = Users
    /\ UNCHANGED <<status, value, refundOnly, tables, ledger, history>>

\* Probe.putCalls(_unsettledBets)
CopyOpen ==
    /\ pc = "copy"
    /\ pc' = "delete"
    /\ calls' = [o \in Orders |->
                   IF o \in tallied \intersect Holding THEN calls[o] + 1 ELSE calls[o]]
    /\ closed' = closed \union (tallied \ Holding)
    /\ UNCHANGED <<status, value, refundOnly, open, tally, ledger, history>>

\* Mutant: the open calls stay.
DeleteOpenNothing ==
    /\ pc = "delete"
    /\ pc' = "pay"
    /\ UNCHANGED <<status, value, refundOnly, tables, tally, ledger, history>>

\* Probe.deleteCallOpen: all open calls of the event, read or not.
DeleteOpen ==
    /\ pc = "delete"
    /\ pc' = "pay"
    /\ open' = IF tallied = {} THEN open ELSE {}
    /\ UNCHANGED <<status, value, refundOnly, calls, closed, tally, ledger, history>>

\* The refund of a user's unmatched orders: no look for an earlier one.
PayRefund(u) ==
    /\ pc = "pay" /\ u \in todo /\ unsettled[u] > 0
    /\ refunded' = [refunded EXCEPT ![u] = @ + unsettled[u]]
    /\ unsettled' = [unsettled EXCEPT ![u] = 0]
    /\ UNCHANGED <<status, value, pc, refundOnly, tables, won, tallied, todo,
                   credited, paid, history>>

\* Mutant: the credit does not look for an earlier transaction.
PayWinningsAgain(u) ==
    /\ pc = "pay" /\ u \in todo /\ unsettled[u] = 0
    /\ todo' = todo \ {u}
    /\ credited' = [credited EXCEPT ![u] = @ + won[u]]
    /\ paid' = IF won[u] > 0 THEN paid \union {u} ELSE paid
    /\ UNCHANGED <<status, value, pc, refundOnly, tables, won, unsettled, tallied,
                   refunded, history>>

\* The user's winnings, unless a transaction of this id exists already.
PayWinnings(u) ==
    /\ pc = "pay" /\ u \in todo /\ unsettled[u] = 0
    /\ todo' = todo \ {u}
    /\ IF won[u] > 0 /\ u \notin paid
       THEN /\ credited' = [credited EXCEPT ![u] = @ + won[u]]
            /\ paid' = paid \union {u}
       ELSE UNCHANGED <<credited, paid>>
    /\ UNCHANGED <<status, value, pc, refundOnly, tables, won, unsettled, tallied,
                   refunded, history>>

\* The process answers and update writes the final status.
Finish ==
    /\ pc = "pay" /\ todo = {}
    /\ pc' = "idle"
    /\ status' = IF refundOnly THEN status ELSE "C"
    /\ UNCHANGED <<value, refundOnly, tables, tally, ledger, history>>

\* The settlement process stops; the update can be sent again later.
Crash ==
    /\ pc # "idle"
    /\ pc' = "idle"
    /\ crashedAt' = crashedAt \union {pc}
    /\ UNCHANGED <<status, value, refundOnly, tables, tally, ledger, runs, raced,
                   resetFailed, revalued>>

-------------------------------------------------------------------------------
(* handleEventReset, for an event of any status: the settlement transactions *)
(* are reversed, refunds stay.                                               *)

Reset ==
    /\ pc = "idle"
    /\ status' = "RST"
    /\ credited' = Nothing
    /\ paid' = {}
    /\ UNCHANGED <<value, pc, refundOnly, tables, tally, refunded, history>>

\* The reversal fails: the error is logged and the reset goes on.
ResetFails ==
    /\ pc = "idle"
    /\ status' = "RST"
    /\ resetFailed' = TRUE
    /\ UNCHANGED <<value, pc, refundOnly, tables, tally, ledger, runs, crashedAt,
                   raced, revalued>>

-------------------------------------------------------------------------------
Next ==
    \/ \E o \in Orders : LateOrder(o) \/ LateMatch(o)
    \/ \E v \in Sides : StartSettle(v)
    \/ StartRefund \/ ReadMatched \/ ReadOpen \/ CopyOpen \/ DeleteOpen
    \/ \E u \in Users : PayRefund(u) \/ PayWinnings(u)
    \/ Finish \/ Crash \/ Reset \/ ResetFails

Spec == Init /\ [][Next]_vars

-------------------------------------------------------------------------------
(* Properties *)

\* Every variable has its type.
TypeOK ==
    /\ status \in {"A", "F", "C", "RST"}
    /\ value \in Sides
    /\ pc \in {"idle", "start", "readOpen", "copy", "delete", "pay"}
    /\ refundOnly \in BOOLEAN
    /\ calls \in [Orders -> Nat]
    /\ open \subseteq Orders /\ closed \subseteq Orders /\ tallied \subseteq Orders
    /\ {won, unsettled, credited, refunded} \subseteq [Users -> Nat]
    /\ todo \subseteq Users /\ paid \subseteq Users
    /\ runs \in 0 .. MaxRuns
    /\ crashedAt \subseteq {"start", "readOpen", "copy", "delete", "pay"}
    /\ raced \subseteq Orders
    /\ resetFailed \in BOOLEAN /\ revalued \in BOOLEAN

Undisturbed(u) == OrdersOf(u, raced) = {}

\* What user u has won under the correct value.
Due(u) ==
    Total(ReturnOf, {o \in OrdersOf(u, Orders) : SideOf[o] = value /\ calls[o] > 0})

\* A settled event has credited every user exactly the winnings of the last
\* settlement, however often settlement crashed and was repeated and whatever
\* was settled and reset before: the look for an earlier transaction makes the
\* payment loop idempotent.  Excepted are users whose orders the matching engine
\* moved during a run or after a run that broke off had paid them (the repeated
\* run skips them), a reset whose reversal failed, a crashed settlement that is
\* repeated for the other value without a reset, and a crash between the copy of
\* the open calls and their deletion, after which an order up for sale is counted
\* twice.
WinningsPaidExactly ==
    status = "C" /\ ~resetFailed /\ ~revalued /\ "delete" \notin crashedAt =>
        \A u \in Users : Undisturbed(u) => credited[u] = Due(u)

\* Refunds of unmatched orders are paid at most once although nothing looks for
\* an earlier refund, because the open calls are gone before the first is paid.
RefundAtMostOnce ==
    \A u \in Users : refunded[u] <= Total(CostOf, OrdersOf(u, closed))

\* The orders of u nothing has matched; a late one once it was seen.
Unmatched(u) ==
    {o \in OrdersOf(u, Orders \ Holding) :
        calls[o] = 0 /\ (o \in Late => o \in closed)}

\* They are paid at least once only if no run crashed while paying: a repeated
\* settlement does not find the deleted open calls.
RefundAtLeastOnce ==
    status = "C" /\ "pay" \notin crashedAt =>
        \A u \in Users :
            Undisturbed(u) => refunded[u] >= Total(CostOf, Unmatched(u))

\* Refunds of unmatched orders are paid exactly once, but for what a crash while
\* paying leaves out and the matching engine disturbs.
RefundedExactly == RefundAtMostOnce /\ RefundAtLeastOnce
===============================================================================

------------------------------ MODULE Transfers ------------------------------
(***************************************************************************)
(* The requests that move coins between wallets, or between a wallet and a *)
(* partner or a payout gateway, on a balance they have read before: token  *)
(* conversions, partner transfers, refunds and bonuses from the dashboard. *)
(*                                                                         *)
(* None of them holds a lock or an idempotency key from its check to its   *)
(* last wallet operation.  What they have in common is that the list of    *)
(* operations goes to executeTransactions, which takes it item by item,    *)
(* each item under the wallet lock of its user only (models/transactions). *)
(* The lock makes an item atomic, so an item is one step here.             *)
(*                                                                         *)
(* Each handler is given by its steps.  Amounts are one unit per receiver. *)
(* Whether execute_transactions, a function of the database that is not in *)
(* the repository, refuses a debit beyond the balance is not known: both   *)
(* are explored (refuses).                                                 *)
(***************************************************************************)
EXTENDS Integers, Sequences, FiniteSets, Functions

CONSTANTS
    Requests,   \* requests in flight on the same wallets
    Mixes,      \* sets of handlers whose requests meet on these wallets
    Balances,   \* the purses' balances to begin with
    None        \* no order

Purses == {"tokens", "deposit", "fund", "promo", "peer"}

-------------------------------------------------------------------------------
(* The handlers.  "balance" reads purse and wants need there; items are the   *)
(* wallet operations, as <<purse, coins>>.                                    *)

Handler(steps, purse, need, items) ==
    [steps |-> steps, purse |-> purse, need |-> need, items |-> items]

ConvertToDeposit ==
    Handler(<<"balance", "count", "execute">>, "tokens", 1,
            << <<"tokens", -1>>, <<"deposit", 1>> >>)

\* only a row and an order at the gateway: the debit is left to the confirmation
ConvertToCrypto ==
    Handler(<<"balance", "countCrypto", "order">>, "tokens", 1, <<>>)

ConfirmConvertToCrypto ==
    Handler(<<"confirm", "execute", "close">>, "tokens", 0, << <<"tokens", -1>> >>)

\* lock is not defined in this file: the handler throws before it does anything
NotifyConvertToCrypto ==
    Handler(<<"undefined">>, "tokens", 0, <<>>)

\* the partner takes the answer for its payment
DebitPartnerUserWallet ==
    Handler(<<"balance", "execute", "partner">>, "deposit", 1, << <<"deposit", -1>> >>)

\* MyMaster11: the partner is credited first
DebitMyMaster11 ==
    Handler(<<"balance", "partner", "execute">>, "deposit", 1, << <<"deposit", -1>> >>)

CreditPartnerUserWallet ==
    Handler(<<"execute">>, "deposit", 0, << <<"deposit", 1>> >>)

\* Mutant: the fund is debited what one receiver gets.
InitiateRefundsOfOne ==
    Handler(<<"balance", "execute">>, "fund", 2,
            << <<"deposit", 1>>, <<"peer", 1>>, <<"fund", -1>> >>)

\* two receivers, then the fund
InitiateRefunds ==
    Handler(<<"balance", "execute">>, "fund", 2,
            << <<"deposit", 1>>, <<"peer", 1>>, <<"fund", -2>> >>)

CreditLuckyCoins ==
    Handler(<<"balance", "execute">>, "promo", 1,
            << <<"tokens", 1>>, <<"promo", -1>> >>)

\* action W: no balance is read
TransferFunds ==
    Handler(<<"execute">>, "deposit", 0, << <<"deposit", -1>>, <<"peer", 1>> >>)

\* action I: what comes in is credited and debited again before the fund gets it
TransferFundsIn ==
    Handler(<<"execute">>, "deposit", 0,
            << <<"deposit", 1>>, <<"deposit", -1>>, <<"fund", 1>> >>)

\* one call per receiver; that of payments.controller.js looks at err after each
AddBonusToList ==
    Handler(<<"execute", "err">>, "peer", 0, << <<"peer", 1>>, <<"deposit", 1>> >>)

AddBonus ==
    Handler(<<"execute">>, "peer", 0, << <<"peer", 1>>, <<"deposit", 1>> >>)

HandlerOf ==
    [convertToDeposit |-> ConvertToDeposit, convertToCrypto |-> ConvertToCrypto,
     confirm |-> ConfirmConvertToCrypto, notify |-> NotifyConvertToCrypto,
     debitMetaOne |-> DebitPartnerUserWallet, debitMyMaster |-> DebitMyMaster11,
     creditMetaOne |-> CreditPartnerUserWallet,
     refunds |-> InitiateRefunds, luckyCoins |-> CreditLuckyCoins,
     transferW |-> TransferFunds, transferI |-> TransferFundsIn,
     bonusList |-> AddBonusToList, bonus |-> AddBonus]

VARIABLES
    kind,       \* per request, its handler
    refuses,    \* the database refuses a debit beyond the balance
    pc,         \* per request: idle, run, ok, refused, broken
    at,         \* per request, the step it is at
    item,       \* per request, the wallet operations executed
    order,      \* per request, the conversion order it has read or None
    balance,    \* the purses
    made,       \* today's conversions to deposit (transactions CRLC), by request
    debited,    \* today's conversions to crypto (transactions LCRD), by order
    rows,       \* the rows of redeem, by the request that inserted them
    confirmed,  \* external: the orders the gateway has confirmed and paid out
    partner,    \* external: coins the partner has received
    errAssigned,\* some handler of the process has assigned the undeclared err
    stale,      \* history: the requests that have read a balance debited since
    counted,    \* history: per request, the conversions it has counted
    overdrawn,  \* history: purses debited on a stale balance, or on none
    broken,     \* history: a request ended between two of its effects
    raced,      \* history: a conversion to deposit was executed on a stale count
    pending,    \* history: an order was made beside one that was not in its count
    twice       \* history: an order was confirmed again

outside == <<rows, confirmed, partner>>
history == <<stale, counted, overdrawn, broken, raced, pending, twice>>
fixed == <<kind, refuses>>
vars == <<fixed, pc, at, item, order, balance, made, debited, outside, errAssigned, history>>

Init ==
    /\ \E mix \in Mixes : kind \in [Requests -> mix]
    /\ refuses \in BOOLEAN
    /\ pc = [r \in Requests |-> "idle"] /\ at = [r \in Requests |-> 1]
    /\ item = [r \in Requests |-> 0] /\ order = [r \in Requests |-> None]
    /\ balance = Balances
    /\ made = {} /\ debited = {}
    /\ rows = {} /\ confirmed = {} /\ partner = 0
    /\ errAssigned \in BOOLEAN
    /\ stale = {} /\ counted = [r \in Requests |-> {}]
    /\ overdrawn = {} /\ broken = FALSE /\ raced = FALSE
    /\ pending = FALSE /\ twice = FALSE

H(r) == HandlerOf[kind[r]]
Running(r) == pc[r] = "run"
IsAt(r, step) == Running(r) /\ H(r).steps[at[r]] = step

\* The request has had some of its effects, and not all.
Midway(r) ==
    /\ Running(r)
    /\ \/ item[r] \in 1 .. Len(H(r).items) - 1
       \/ at[r] > 1 /\ H(r).steps[at[r] - 1] \in {"partner", "confirm", "execute"}

End(r, how) == pc' = [pc EXCEPT ![r] = how] /\ UNCHANGED at
Go(r) ==
    IF at[r] = Len(H(r).steps)
    THEN End(r, "ok")
    ELSE at' = [at EXCEPT ![r] = @ + 1] /\ UNCHANGED pc

-------------------------------------------------------------------------------
(* The steps *)

Arrive(r) ==
    /\ pc[r] = "idle"
    /\ pc' = [pc EXCEPT ![r] = "run"]
    /\ UNCHANGED <<fixed, at, item, order, balance, made, debited, outside, errAssigned, history>>

\* getWalletBalance and 'Insufficient Funds'
ReadBalance(r) ==
    /\ IsAt(r, "balance")
    /\ IF balance[H(r).purse] < H(r).need THEN End(r, "refused") ELSE Go(r)
    /\ UNCHANGED <<fixed, item, order, balance, made, debited, outside, errAssigned, history>>

\* getTransactionCount of CRLC, and 'Only 1 request allowed per day'
Count(r) ==
    /\ IsAt(r, "count")
    /\ counted' = [counted EXCEPT ![r] = made]
    /\ IF made # {} THEN End(r, "refused") ELSE Go(r)
    /\ UNCHANGED <<fixed, item, order, balance, made, debited, outside, errAssigned,
                   stale, overdrawn, broken, raced, pending, twice>>

\* the same of LCRD less LCRC, which come with a confirmation and a cancellation
CountCrypto(r) ==
    /\ IsAt(r, "countCrypto")
    /\ counted' = [counted EXCEPT ![r] = debited]
    /\ IF debited # {} THEN End(r, "refused") ELSE Go(r)
    /\ UNCHANGED <<fixed, item, order, balance, made, debited, outside, errAssigned,
                   stale, overdrawn, broken, raced, pending, twice>>

\* createPayoutOrder and putRedeemRequests
Order(r) ==
    /\ IsAt(r, "order")
    /\ rows' = rows \union {[id |-> r, status |-> "A"]}
    /\ pending' = (pending \/ \E row \in rows : row.id \notin counted[r])
    /\ Go(r)
    /\ UNCHANGED <<fixed, item, order, balance, made, debited, confirmed, partner, errAssigned,
                   stale, counted, overdrawn, broken, raced, twice>>

\* getRedeemByRefId, whose status nobody looks at, and confirmPayoutOrder.  What the
\* gateway answers to a second confirmation is its own affair.
Confirm(r) ==
    /\ IsAt(r, "confirm")
    /\ \/ \E row \in rows :
            /\ order' = [order EXCEPT ![r] = row.id]
            /\ confirmed' = confirmed \union {row.id}
            /\ twice' = (twice \/ row.id \in confirmed)
            /\ Go(r)
       \/ End(r, "refused") /\ UNCHANGED <<order, confirmed, twice>>
    /\ UNCHANGED <<fixed, item, balance, made, debited, rows, partner, errAssigned,
                   stale, counted, overdrawn, broken, raced, pending>>

\* Who has read the balance of a purse and may still debit it on that.
Relies(r, p) == Running(r) /\ at[r] > 1 /\ H(r).steps[1] = "balance" /\ H(r).purse = p

\* The debit has no check, or one that is older than another debit of the purse.
Unchecked(r, p) == ~Relies(r, p) \/ r \in stale

Converts(r, coins) == kind[r] = "convertToDeposit" /\ coins > 0

\* One item of the list: execute_transactions for one operation.
Execute(r) ==
    /\ IsAt(r, "execute")
    /\ LET n == item[r] + 1
           p == H(r).items[n][1]
           coins == H(r).items[n][2]
       IN  /\ refuses => balance[p] + coins >= 0
           /\ item' = [item EXCEPT ![r] = n]
           /\ balance' = [balance EXCEPT ![p] = @ + coins]
           /\ stale' = stale \union {q \in Requests : coins < 0 /\ Relies(q, p)}
           /\ overdrawn' = overdrawn \union {q \in {p} : coins < 0 /\ Unchecked(r, p)}
           /\ made' = made \union {q \in {r} : Converts(r, coins)}
           /\ raced' = (raced \/ (Converts(r, coins) /\ counted[r] # made))
           /\ debited' = debited \union {o \in {order[r]} : kind[r] = "confirm"}
           /\ IF n = Len(H(r).items) \/ kind[r] = "bonusList" THEN Go(r) ELSE UNCHANGED <<pc, at>>
    /\ UNCHANGED <<fixed, order, outside, errAssigned, counted, broken, pending, twice>>

\* The database refuses the item, and the handler throws: what has been executed stays.
ExecuteRefused(r) ==
    /\ IsAt(r, "execute") /\ refuses
    /\ LET next == H(r).items[item[r] + 1]
       IN  balance[next[1]] + next[2] < 0
    /\ End(r, "broken")
    /\ broken' = (broken \/ Midway(r))
    /\ UNCHANGED <<fixed, item, order, balance, made, debited, outside, errAssigned,
                   stale, counted, overdrawn, raced, pending, twice>>

\* creditMyMaster11Wallet, or the answer on which MetaOne credits its user
PayPartner(r) ==
    /\ IsAt(r, "partner")
    /\ partner' = partner + 1
    /\ Go(r)
    /\ UNCHANGED <<fixed, item, order, balance, made, debited, rows, confirmed, errAssigned, history>>

\* updateRedeemRequests: the row is complete, whatever it was; err is assigned
Close(r) ==
    /\ IsAt(r, "close")
    /\ rows' = {row \in rows : row.id # order[r]} \union {[id |-> order[r], status |-> "C"]}
    /\ errAssigned' = TRUE
    /\ Go(r)
    /\ UNCHANGED <<fixed, item, order, balance, made, debited, confirmed, partner, history>>

\* if (err): the name is not declared in the file
LookAtErr(r) ==
    /\ IsAt(r, "err")
    /\ IF ~errAssigned
       THEN End(r, "broken") /\ broken' = (broken \/ item[r] < Len(H(r).items))
       ELSE /\ IF item[r] = Len(H(r).items)
               THEN End(r, "ok")
               ELSE at' = [at EXCEPT ![r] = @ - 1] /\ UNCHANGED pc
            /\ UNCHANGED broken
    /\ UNCHANGED <<fixed, item, order, balance, made, debited, outside, errAssigned,
                   stale, counted, overdrawn, raced, pending, twice>>

\* lock(reqKey, 300000): lock is not defined
NotDefined(r) ==
    /\ IsAt(r, "undefined")
    /\ End(r, "broken")
    /\ UNCHANGED <<fixed, item, order, balance, made, debited, outside, errAssigned, history>>

-------------------------------------------------------------------------------
(* Failures and the outside *)

\* An awaited call throws, or the process stops.
BreakOff(r) ==
    /\ Running(r)
    /\ End(r, "broken")
    /\ broken' = (broken \/ Midway(r))
    /\ UNCHANGED <<fixed, item, order, balance, made, debited, outside, errAssigned,
                   stale, counted, overdrawn, raced, pending, twice>>

Step(r) ==
    \/ Arrive(r) \/ ReadBalance(r) \/ Count(r) \/ CountCrypto(r) \/ Order(r) \/ Confirm(r)
    \/ Execute(r) \/ ExecuteRefused(r) \/ PayPartner(r) \/ Close(r) \/ LookAtErr(r)
    \/ NotDefined(r) \/ BreakOff(r)

Next == \E r \in Requests : Step(r)

Spec == Init /\ [][Next]_vars

-------------------------------------------------------------------------------
(* Properties *)

\* Every variable has its type.
TypeOK ==
    /\ kind \in [Requests -> DOMAIN HandlerOf] /\ refuses \in BOOLEAN /\ errAssigned \in BOOLEAN
    /\ pc \in [Requests -> {"idle", "run", "ok", "refused", "broken"}]
    /\ at \in [Requests -> Nat] /\ item \in [Requests -> Nat]
    /\ \A r \in Requests : at[r] \in DOMAIN H(r).steps /\ item[r] \in 0 .. Len(H(r).items)
    /\ order \in [Requests -> Requests \union {None}] /\ balance \in [Purses -> Int]
    /\ made \subseteq Requests /\ debited \subseteq Requests /\ confirmed \subseteq Requests
    /\ rows \subseteq [id : Requests, status : {"A", "C"}] /\ partner \in Nat
    /\ stale \subseteq Requests /\ counted \in [Requests -> SUBSET Requests]
    /\ overdrawn \subseteq Purses /\ {broken, raced, pending, twice} \subseteq BOOLEAN

\* 'Only 1 request allowed per day' (luckycoins.controller.js:73, 158): tokens are
\* converted to deposit twice a day only if two requests overlapped, and to crypto
\* only if a second order was made beside one that was still to be debited.
OneConversionADay ==
    /\ Cardinality(made) > 1 => raced
    /\ Cardinality(debited) > 1 => pending

Total(purses) == FoldFunctionOnSet(+, 0, purses, Purses)

\* What a request brings into the wallets: the coins of a bonus or a recharge.  The
\* others move coins, to a partner and to the gateway too.
Brought(r) ==
    IF kind[r] \in {"bonusList", "bonus", "creditMetaOne"} THEN item[r]
    ELSE IF kind[r] = "transferI" /\ item[r] > 0 THEN 1 ELSE 0

\* Coins are conserved: what is in the wallets, with the partner and paid out by the
\* gateway is what was there and what bonuses and recharges have brought.  It is
\* not while a request is midway, after one broke off there, and when an order is
\* confirmed again, for which the tokens are debited again.
CoinsConserved ==
    ~broken /\ ~twice /\ (\A r \in Requests : ~Midway(r)) =>
        Total(balance) + partner + Cardinality(confirmed)
            = Total(Balances)
                  + FoldFunctionOnSet(+, 0, [r \in Requests |-> Brought(r)], Requests)

\* Conversions and transfers neither repeat nor lose or make coins, but where requests
\* overlap or break off.
TransfersHold == OneConversionADay /\ CoinsConserved

===============================================================================

------------------------------- MODULE MCMoney --------------------------------
(* The components that move money outside trading in one run: deposits,        *)
(* transfers, withdrawals, settlement and cancellation.  They share no state   *)
(* and no actor, so that a behaviour is one of them: part says which, and the  *)
(* variables of the others are None throughout.                                *)
EXTENDS Integers, FiniteSets, TLC

CONSTANTS Requests, RowLimit, a, b, o1, o2, o3, o4, None

\* The wallets that transfers meet on, and the handlers that meet there.
CONSTANTS Balances, Mixes

\* The event that is settled or cancelled: who plays, the orders, what is owed, and
\* bounds on the attempts.
CONSTANTS
    People, Orders, Matched, Holding, Late, UserOf, SideOf, CostOf, ReturnOf, Settlements,
    Debts, Cancellations

\* None is no request, and nothing that a row or a request can say.
ASSUME MoneyAssumption ==
    /\ None \notin Requests
    /\ None \notin {"payment", "order", "pending", "success", "failed"}
    /\ RowLimit \in Nat

\* The orders are finitely many, each of one user; a matched order, one for sale and
\* one the engine has still to insert differ.
ASSUME SettlementAssumption ==
    /\ IsFiniteSet(Orders) /\ UserOf \in [Orders -> People]
    /\ SideOf \in [Orders -> {"Y", "N"}]
    /\ CostOf \in [Orders -> Nat] /\ ReturnOf \in [Orders -> Nat]
    /\ Matched \subseteq Orders /\ Holding \subseteq Orders /\ Late \subseteq Orders
    /\ Matched \intersect Holding = {} /\ Matched \intersect Late = {}
    /\ Holding \intersect Late = {}
    /\ Settlements \in Nat

ASSUME CancelAssumption ==
    /\ Debts \in [{"open", "matched", "liquidity", "provider", "referral",
                     "eventReferral", "tds"} -> SUBSET People]
    /\ Cancellations \in Nat

VARIABLES
    part, gateway, plan, seen, recorded, recorder, stolen, dropped,
    outcome, left, lock, lapsed, pc, at, credited, kind, refuses, item,
    order, balance, made, debited, confirmed, partner, errAssigned, stale,
    counted, overdrawn, broken, pending, twice, rows, raced, pg, guarded,
    target, said, redeem, key, cache, cancelling, refunds, revived,
    recalled, status, todo, paid, runs, value, refundOnly, calls, open,
    closed, won, unsettled, tallied, refunded, crashedAt, resetFailed,
    revalued, phase, step, treated, read, crashes, unmarked

ofDeposit == <<
    gateway, plan, seen, recorded, recorder, stolen, dropped>>
ofDepositAndWithdrawal == <<
    outcome, left, lock, lapsed>>
ofDepositAndTransfersAndWithdrawalAndSettlement == <<
    pc>>
ofDepositAndTransfersAndWithdrawal == <<
    at>>
ofDepositAndSettlement == <<
    credited>>
ofTransfersAndWithdrawal == <<
    kind>>
ofTransfers == <<
    refuses, item, order, balance, made, debited, confirmed, partner,
    errAssigned, stale, counted, overdrawn, broken, pending, twice>>
ofTransfersAndCancel == <<
    rows>>
ofTransfersAndSettlement == <<
    raced>>
ofWithdrawal == <<
    pg, guarded, target, said, redeem, key, cache, cancelling, refunds,
    revived, recalled>>
ofSettlementAndCancel == <<
    status, todo, paid, runs>>
ofSettlement == <<
    value, refundOnly, calls, open, closed, won, unsettled, tallied,
    refunded, crashedAt, resetFailed, revalued>>
ofCancel == <<
    phase, step, treated, read, crashes, unmarked>>

\* Requests on tokens, on the deposit of a partner's user, and from the dashboard.
SomeMixes ==
    {{"convertToDeposit", "convertToCrypto", "confirm", "notify", "luckyCoins"},
     {"debitMetaOne", "debitMyMaster", "creditMetaOne", "transferW"},
     {"refunds", "bonusList", "bonus", "transferI"}}
SmallBalances ==
    [tokens |-> 1, deposit |-> 1, fund |-> 2, promo |-> 1, peer |-> 1]
AllGateways ==
    {"cashfree", "juspay", "onmeta", "paykassma", "direct24", "linkqu", "callback", "decentro"}

\* a has a matched order and an unmatched one, b one up for sale and one the matching
\* engine inserts late.
Owners == (o1 :> a) @@ (o2 :> a) @@ (o3 :> b) @@ (o4 :> b)
OrderSides == (o1 :> "Y") @@ (o2 :> "N") @@ (o3 :> "Y") @@ (o4 :> "Y")
Costs == (o1 :> 3) @@ (o2 :> 4) @@ (o3 :> 5) @@ (o4 :> 7)
Returns == (o1 :> 10) @@ (o2 :> 20) @@ (o3 :> 40) @@ (o4 :> 80)

\* Both have matched calls, earned referral fees and paid tax; a has open calls too and
\* provides liquidity; b earned provider and event referral fees.
ToRefund ==
    [open |-> {a}, liquidity |-> {a}, matched |-> {a, b}, referral |-> {a, b}, tds |-> {a, b},
     provider |-> {b}, eventReferral |-> {b}]

D == INSTANCE Deposit WITH Handlers <- Requests, Gateways <- AllGateways
T == INSTANCE Transfers
W == INSTANCE Withdrawal WITH MaxRows <- RowLimit
S == INSTANCE Settlement WITH Users <- People, MaxRuns <- Settlements
C == INSTANCE EventCancel WITH Users <- People, Owed <- Debts, MaxRuns <- Cancellations

\* The requests on the wallets are finitely many, and each is one of the handlers.
ASSUME TransfersAssumption ==
    /\ IsFiniteSet(Requests)
    /\ Balances \in [T!Purses -> Int]
    /\ \A mix \in Mixes : mix \subseteq DOMAIN T!HandlerOf

NoDeposit ==
    /\ gateway = None
    /\ plan = None
    /\ seen = None
    /\ recorded = None
    /\ recorder = None
    /\ stolen = None
    /\ dropped = None

NoDepositAndWithdrawal ==
    /\ outcome = None
    /\ left = None
    /\ lock = None
    /\ lapsed = None

NoDepositAndTransfersAndWithdrawalAndSettlement ==
    /\ pc = None

NoDepositAndTransfersAndWithdrawal ==
    /\ at = None

NoDepositAndSettlement ==
    /\ credited = None

NoTransfersAndWithdrawal ==
    /\ kind = None

NoTransfers ==
    /\ refuses = None
    /\ item = None
    /\ order = None
    /\ balance = None
    /\ made = None
    /\ debited = None
    /\ confirmed = None
    /\ partner = None
    /\ errAssigned = None
    /\ stale = None
    /\ counted = None
    /\ overdrawn = None
    /\ broken = None
    /\ pending = None
    /\ twice = None

NoTransfersAndCancel ==
    /\ rows = None

NoTransfersAndSettlement ==
    /\ raced = None

NoWithdrawal ==
    /\ pg = None
    /\ guarded = None
    /\ target = None
    /\ said = None
    /\ redeem = None
    /\ key = None
    /\ cache = None
    /\ cancelling = None
    /\ refunds = None
    /\ revived = None
    /\ recalled = None

NoSettlementAndCancel ==
    /\ status = None
    /\ todo = None
    /\ paid = None
    /\ runs = None

NoSettlement ==
    /\ value = None
    /\ refundOnly = None
    /\ calls = None
    /\ open = None
    /\ closed = None
    /\ won = None
    /\ unsettled = None
    /\ tallied = None
    /\ refunded = None
    /\ crashedAt = None
    /\ resetFailed = None
    /\ revalued = None

NoCancel ==
    /\ phase = None
    /\ step = None
    /\ treated = None
    /\ read = None
    /\ crashes = None
    /\ unmarked = None

Init ==
    \/ /\ part = "deposit" /\ D!Init
       /\ NoTransfersAndWithdrawal /\ NoTransfers /\ NoTransfersAndCancel /\ NoTransfersAndSettlement /\ NoWithdrawal /\ NoSettlementAndCancel /\ NoSettlement /\ NoCancel
    \/ /\ part = "transfers" /\ T!Init
       /\ NoDeposit /\ NoDepositAndWithdrawal /\ NoDepositAndSettlement /\ NoWithdrawal /\ NoSettlementAndCancel /\ NoSettlement /\ NoCancel
    \/ /\ part = "withdrawal" /\ W!Init
       /\ NoDeposit /\ NoDepositAndSettlement /\ NoTransfers /\ NoTransfersAndCancel /\ NoTransfersAndSettlement /\ NoSettlementAndCancel /\ NoSettlement /\ NoCancel
    \/ /\ part = "settlement" /\ S!Init
       /\ NoDeposit /\ NoDepositAndWithdrawal /\ NoDepositAndTransfersAndWithdrawal /\ NoTransfersAndWithdrawal /\ NoTransfers /\ NoTransfersAndCancel /\ NoWithdrawal /\ NoCancel
    \/ /\ part = "cancel" /\ C!Init
       /\ NoDeposit /\ NoDepositAndWithdrawal /\ NoDepositAndTransfersAndWithdrawalAndSettlement /\ NoDepositAndTransfersAndWithdrawal /\ NoDepositAndSettlement /\ NoTransfersAndWithdrawal /\ NoTransfers /\ NoTransfersAndSettlement /\ NoWithdrawal /\ NoSettlement

Next ==
    \/ /\ part = "deposit" /\ D!Next
       /\ UNCHANGED <<part, ofTransfersAndWithdrawal, ofTransfers, ofTransfersAndCancel, ofTransfersAndSettlement, ofWithdrawal, ofSettlementAndCancel, ofSettlement, ofCancel>>
    \/ /\ part = "transfers" /\ T!Next
       /\ UNCHANGED <<part, ofDeposit, ofDepositAndWithdrawal, ofDepositAndSettlement, ofWithdrawal, ofSettlementAndCancel, ofSettlement, ofCancel>>
    \/ /\ part = "withdrawal" /\ W!Next
       /\ UNCHANGED <<part, ofDeposit, ofDepositAndSettlement, ofTransfers, ofTransfersAndCancel, ofTransfersAndSettlement, ofSettlementAndCancel, ofSettlement, ofCancel>>
    \/ /\ part = "settlement" /\ S!Next
       /\ UNCHANGED <<part, ofDeposit, ofDepositAndWithdrawal, ofDepositAndTransfersAndWithdrawal, ofTransfersAndWithdrawal, ofTransfers, ofTransfersAndCancel, ofWithdrawal, ofCancel>>
    \/ /\ part = "cancel" /\ C!Next
       /\ UNCHANGED <<part, ofDeposit, ofDepositAndWithdrawal, ofDepositAndTransfersAndWithdrawalAndSettlement, ofDepositAndTransfersAndWithdrawal, ofDepositAndSettlement, ofTransfersAndWithdrawal, ofTransfers, ofTransfersAndSettlement, ofWithdrawal, ofSettlement>>

vars ==
    <<part, ofDeposit, ofDepositAndWithdrawal, ofDepositAndTransfersAndWithdrawalAndSettlement,
      ofDepositAndTransfersAndWithdrawal, ofDepositAndSettlement, ofTransfersAndWithdrawal,
      ofTransfers, ofTransfersAndCancel, ofTransfersAndSettlement, ofWithdrawal,
      ofSettlementAndCancel, ofSettlement, ofCancel>>

Spec == Init /\ [][Next]_vars

Symmetry == Permutations(Requests)

\* The components' properties.
CreditedOnce == part = "deposit" => D!CreditedOnce
RecordedIsCredited == part = "deposit" => D!RecordedIsCredited
TransfersHold == part = "transfers" => T!TransfersHold
RefundedWhenDue == part = "withdrawal" => W!RefundedWhenDue
LockIsReleased == part = "withdrawal" => W!LockIsReleased
WinningsPaidExactly == part = "settlement" => S!WinningsPaidExactly
RefundedExactly == part = "settlement" => S!RefundedExactly
RefundsComplete == part = "cancel" => C!RefundsComplete
===============================================================================

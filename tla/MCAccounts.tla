------------------------------ MODULE MCAccounts ------------------------------
(* What one user's or one market maker's requests do, in one run: the orders    *)
(* putCall checks, the prices they are quoted, sign-up, bank details and the    *)
(* register of the market making task.  The components share no state and no    *)
(* actor, so that a behaviour is one of them: part says which, and the          *)
(* variables of the others are None throughout.                                 *)
EXTENDS Integers, FiniteSets, TLC

CONSTANTS
    Requests, Pair, First, None,                         \* Pair: events of Trade, users of BankDetails
    PrivateLimit, RetentionLimit, MaxTradeAmount, Funds, \* Trade
    BookOrders,                                           \* Prices
    Events, Limits, MaxOrders, MaxSpent                  \* MatchMaking

VARIABLES
    part, private, custom, data, wallet, shares, open, orders, canceled,
    bought, short, together, unclear, editable, pending, key, pc, lost,
    market, cp, page, domain, stale, replica, kind, seen, channel, closed,
    temp, copy, lock, hooks, session, accounts, compared, entered, used,
    approvals, odd, account, answer, bankDeets, detailsToDelete, bank,
    beneficiary, equal, verified, kycstatus, withdrawing, version, stored,
    memory, running, cron, task, request, spent, ceiling, uncertain,
    released, left

ofTrade == <<
    private, custom, data, wallet, shares, open, orders, canceled, bought,
    short, together, unclear>>
ofTradeAndPrices == <<
    editable, pending>>
ofTradeAndBank == <<
    key>>
ofTradeAndPricesAndSignInAndBank == <<
    pc>>
ofTradeAndMaking == <<
    lost>>
ofPrices == <<
    market, cp, page, domain, stale>>
ofPricesAndSignInAndBank == <<
    replica, kind>>
ofPricesAndBank == <<
    seen>>
ofSignIn == <<
    channel, closed, temp, copy, lock, hooks, session, accounts, compared,
    entered, used, approvals>>
ofSignInAndBank == <<
    odd>>
ofBank == <<
    account, answer, bankDeets, detailsToDelete, bank, beneficiary, equal,
    verified, kycstatus, withdrawing>>
ofMaking == <<
    version, stored, memory, running, cron, task, request, spent, ceiling,
    uncertain, released, left>>

\* Two bids for the two sides and one of a holder of No who sells.
SomeOrders ==
    {[callvalue |-> "Y", status |-> "A", coins |-> 41], [callvalue |-> "Y", status |-> "H", coins |-> 70],
     [callvalue |-> "N", status |-> "A", coins |-> 50]}

Tr == INSTANCE Trade WITH Events <- Pair
Pr == INSTANCE Prices
Si == INSTANCE SignIn
Ba == INSTANCE BankDetails WITH Users <- Pair
Ma == INSTANCE MatchMaking

ASSUME TradeAssumption ==
    /\ IsFiniteSet(Pair)
    /\ PrivateLimit \in Nat /\ RetentionLimit \in Nat \ {0} /\ MaxTradeAmount \in Nat \ {0}
    /\ Funds \in Nat
    /\ None \notin Requests \union Tr!Bodies

ASSUME PricesAssumption ==
    BookOrders \subseteq [callvalue : Pr!Sides, status : {"A", "H"}, coins : 1 .. Pr!Full - 1]

ASSUME SignInAssumption == First \notin Requests /\ None \notin Requests \union Si!Row

ASSUME BankAssumption == None \notin Ba!Accounts

ASSUME MatchMakingAssumption ==
    /\ Limits \subseteq Nat /\ Limits # {} /\ MaxOrders \in Nat /\ MaxSpent \in Nat
    /\ None \notin Ma!Entry

NoTrade ==
    /\ private = None
    /\ custom = None
    /\ data = None
    /\ wallet = None
    /\ shares = None
    /\ open = None
    /\ orders = None
    /\ canceled = None
    /\ bought = None
    /\ short = None
    /\ together = None
    /\ unclear = None

NoTradeAndPrices ==
    /\ editable = None
    /\ pending = None

NoTradeAndBank ==
    /\ key = None

NoTradeAndPricesAndSignInAndBank ==
    /\ pc = None

NoTradeAndMaking ==
    /\ lost = None

NoPrices ==
    /\ market = None
    /\ cp = None
    /\ page = None
    /\ domain = None
    /\ stale = None

NoPricesAndSignInAndBank ==
    /\ replica = None
    /\ kind = None

NoPricesAndBank ==
    /\ seen = None

NoSignIn ==
    /\ channel = None
    /\ closed = None
    /\ temp = None
    /\ copy = None
    /\ lock = None
    /\ hooks = None
    /\ session = None
    /\ accounts = None
    /\ compared = None
    /\ entered = None
    /\ used = None
    /\ approvals = None

NoSignInAndBank ==
    /\ odd = None

NoBank ==
    /\ account = None
    /\ answer = None
    /\ bankDeets = None
    /\ detailsToDelete = None
    /\ bank = None
    /\ beneficiary = None
    /\ equal = None
    /\ verified = None
    /\ kycstatus = None
    /\ withdrawing = None

NoMaking ==
    /\ version = None
    /\ stored = None
    /\ memory = None
    /\ running = None
    /\ cron = None
    /\ task = None
    /\ request = None
    /\ spent = None
    /\ ceiling = None
    /\ uncertain = None
    /\ released = None
    /\ left = None

Init ==
    \/ /\ part = "trade" /\ Tr!Init
       /\ NoPrices /\ NoPricesAndSignInAndBank /\ NoPricesAndBank /\ NoSignIn /\ NoSignInAndBank /\ NoBank /\ NoMaking
    \/ /\ part = "prices" /\ Pr!Init
       /\ NoTrade /\ NoTradeAndBank /\ NoTradeAndMaking /\ NoSignIn /\ NoSignInAndBank /\ NoBank /\ NoMaking
    \/ /\ part = "signIn" /\ Si!Init
       /\ NoTrade /\ NoTradeAndPrices /\ NoTradeAndBank /\ NoTradeAndMaking /\ NoPrices /\ NoPricesAndBank /\ NoBank /\ NoMaking
    \/ /\ part = "bank" /\ Ba!Init
       /\ NoTrade /\ NoTradeAndPrices /\ NoTradeAndMaking /\ NoPrices /\ NoSignIn /\ NoMaking
    \/ /\ part = "making" /\ Ma!Init
       /\ NoTrade /\ NoTradeAndPrices /\ NoTradeAndBank /\ NoTradeAndPricesAndSignInAndBank /\ NoPrices /\ NoPricesAndSignInAndBank /\ NoPricesAndBank /\ NoSignIn /\ NoSignInAndBank /\ NoBank

Next ==
    \/ /\ part = "trade" /\ Tr!Next
       /\ UNCHANGED <<part, ofPrices, ofPricesAndSignInAndBank, ofPricesAndBank, ofSignIn, ofSignInAndBank, ofBank, ofMaking>>
    \/ /\ part = "prices" /\ Pr!Next
       /\ UNCHANGED <<part, ofTrade, ofTradeAndBank, ofTradeAndMaking, ofSignIn, ofSignInAndBank, ofBank, ofMaking>>
    \/ /\ part = "signIn" /\ Si!Next
       /\ UNCHANGED <<part, ofTrade, ofTradeAndPrices, ofTradeAndBank, ofTradeAndMaking, ofPrices, ofPricesAndBank, ofBank, ofMaking>>
    \/ /\ part = "bank" /\ Ba!Next
       /\ UNCHANGED <<part, ofTrade, ofTradeAndPrices, ofTradeAndMaking, ofPrices, ofSignIn, ofMaking>>
    \/ /\ part = "making" /\ Ma!Next
       /\ UNCHANGED <<part, ofTrade, ofTradeAndPrices, ofTradeAndBank, ofTradeAndPricesAndSignInAndBank, ofPrices, ofPricesAndSignInAndBank, ofPricesAndBank, ofSignIn, ofSignInAndBank, ofBank>>

vars ==
    <<part, ofTrade, ofTradeAndPrices, ofTradeAndBank,
      ofTradeAndPricesAndSignInAndBank, ofTradeAndMaking, ofPrices,
      ofPricesAndSignInAndBank, ofPricesAndBank, ofSignIn, ofSignInAndBank,
      ofBank, ofMaking>>

Spec == Init /\ [][Next]_vars

Symmetry == Permutations(Requests) \union Permutations(Pair)

\* The components' properties.
OrdersHold == part = "trade" => Tr!OrdersHold
QuotesHold == part = "prices" => Pr!QuotesHold
SignedUpOnce == part = "signIn" => Si!SignedUpOnce
CodeHolds == part = "signIn" => Si!CodeHolds
DetailsAgree == part = "bank" => Ba!DetailsAgree
InvestmentBounded == part = "making" => Ma!InvestmentBounded
===============================================================================

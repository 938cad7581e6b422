SPECIFICATION Spec
SYMMETRY Symmetry
CONSTANTS
    None = None
    First = First
    Requests = {r1, r2}
    Pair = {x1, x2}
    PrivateLimit = 1
    RetentionLimit = 1
    MaxTradeAmount = 2
    Funds = 2
    BookOrders <- SomeOrders
    Events = {e1}
    Limits = {1}
    MaxOrders = 1
    MaxSpent = 2
INVARIANTS
    
    QuotesHold
    SignedUpOnce
    CodeHolds
    
    InvestmentBounded
CHECK_DEADLOCK FALSE

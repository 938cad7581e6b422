SPECIFICATION Spec
CONSTANTS
    None = None
    Requests = {r1, r2, r3}
    RowLimit = 2
    Mixes <- SomeMixes
    Balances <- SmallBalances
    a = a
    b = b
    o1 = o1
    o2 = o2
    o3 = o3
    o4 = o4
    People = {a, b}
    Orders = {o1, o2, o3, o4}
    Matched = {o1}
    Holding = {o3}
    Late = {o4}
    UserOf <- Owners
    SideOf <- OrderSides
    CostOf <- Costs
    ReturnOf <- Returns
    Settlements = 3
    Debts <- ToRefund
    Cancellations = 4
SYMMETRY Symmetry
INVARIANTS
    CreditedOnce
    RecordedIsCredited
    TransfersHold
    RefundedWhenDue
    LockIsReleased
    
    RefundedExactly
    RefundsComplete
CHECK_DEADLOCK FALSE

SPECIFICATION Spec
CONSTANTS
    None = None
    Nobody = Nobody
    u1 = u1
    u2 = u2
    u3 = u3
    s1 = s1
    Updates = {u1, u2, u3}
    Settlements = {s1}
    Ops <- MCOps
    InitialRow <- MCInitialRow
    Handlers = {h1, h2, h3}
SYMMETRY Symmetry
INVARIANTS
    BalanceIsSumOfOperations
    BonusNotMinted
    PaidOnce
    CancelledNotPaid
    AcceptedIsRecorded
CHECK_DEADLOCK FALSE

SPECIFICATION Spec
CONSTANTS
    None = None
    Users = {u1, u2}
    Updates = {r1, r2, r3}
    ContestCancels = {c1}
    Brackets = 2
    Options = {yes, no}
SYMMETRY Symmetry
INVARIANTS
    OneUpdateAtATime
    PaidOneWay
    CompleteIsPaid
    PrizesPaidOnce
    CancelledRefundsEntries
    PrizesAfterEvents
    
    BetsComeBack
PROPERTY
    ClosedStaysClosed
CHECK_DEADLOCK FALSE

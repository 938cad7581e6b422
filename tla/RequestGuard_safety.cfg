SPECIFICATION Spec
CONSTANTS
    e1 = e1
    e2 = e2
    Nobody = Nobody
    Puts = {p1, p2}
    Merges = {m1}
    Redeems = {r1, r2, r3}
    Events = {e1, e2}
    Fantasy = {e2}
SYMMETRY Symmetry
INVARIANTS
    TradeWithdrawalExclusion
    AdmissionIsExclusive
    OneWithdrawalAtATime
PROPERTY
    ImplementsTradeOrWithdraw
CHECK_DEADLOCK FALSE

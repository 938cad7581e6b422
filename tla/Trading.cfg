SPECIFICATION Spec
SYMMETRY Symmetry
CONSTANTS
    None = None
    Requests = {r1, r2, r3}
    Users = {u1, u2}
    Events = {1, 2, 3}
    Prices = {30}
    Numbers = {1, 2}
    MaxCalls = 2
    Trees <- SomeTrees
    Bulk = 2
    Coins = 1
    Shares = 1
INVARIANTS
    ProfitIsPayoff
    
    LiquidityIsOwn
CHECK_DEADLOCK FALSE

SPECIFICATION Spec
CONSTANTS
    Users = {1, 2}
    keyed = keyed
    Entries = {keyed, second, third}
    User <- UserOf
    Unguarded = {2}
    Places <- SomePlaces
    Values = {zero, nan}
    Limit = 1
    Fee = 1
    MaxEvents = 2
SYMMETRY Symmetry
INVARIANTS
    WalletIsBooked
    OverbookedByRace
    
    PoolNotExceeded
CHECK_DEADLOCK FALSE

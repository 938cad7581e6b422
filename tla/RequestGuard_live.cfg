SPECIFICATION FairSpec
CONSTANTS
    Nobody = Nobody
    Puts = {p1, p2}
    Merges = {m1}
    Redeems = {r1}
    Events = {e1}
    Fantasy = {}
PROPERTIES
    EveryRequestEnds
CHECK_DEADLOCK FALSE

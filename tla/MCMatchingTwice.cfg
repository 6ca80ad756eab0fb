SPECIFICATION Spec
CONSTANTS
    v1 = v1
    v2 = v2
    v3 = v3
    v4 = v4
    v5 = v5
    v6 = v6
    hiking = hiking
    coffee = coffee
    None = None
    Score <- MCScore
    Card <- MCCard
    Query = 2
    Limit = 2
    Users = {v1, v2}
    Swipers = {v1, v2}
    Viewers = {v1}
    Newcomers = {}
    Swipes = {r1, r2}
    Deals = {}
    Faulty = {}
INVARIANT OneMatchRecord
CHECK_DEADLOCK FALSE

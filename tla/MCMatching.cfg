SPECIFICATION FairSpec
CONSTANTS
    v1 = v1
    v2 = v2
    v3 = v3
    v4 = v4
    v5 = v5
    v6 = v6
    hiking = hiking
    coffee = coffee
    None = None
    Score <- MCScore
    Card <- MCCard
    Query = 2
    Limit = 2
    Users = {v1, v2, v3, v4, v5, v6}
    Swipers = {v1, v2, v3}
    Viewers = {v1}
    Newcomers = {v1}
    Swipes = {r1, r2}
    Deals = {k1}
    Faulty = {"save", "match"}
INVARIANTS TypeOK NoMissedMatch CardsExcluded CardsRanked
PROPERTIES ImplementsMutualMatch EventuallyMatched
CHECK_DEADLOCK FALSE

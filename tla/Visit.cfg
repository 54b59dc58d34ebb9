SPECIFICATION FairSpec
CONSTANTS
    r1 = r1
    r2 = r2
    p1 = p1
    p2 = p2
    v1 = v1
    Runs = {r1, r2}
    PRs = {p1, p2}
    PrOf <- TwoPRs
    CommandOf <- PlanUp
    Visitors = {v1}
    NoOne = NoOne
    Operator = Operator
    Orphan = Orphan
    Nobody = Nobody
    MaxEvents = 0
    MaxOutside = 0
    MaxVersion = 2
INVARIANT GroupGuardsLock
PROPERTY RunsEnd
CHECK_DEADLOCK FALSE

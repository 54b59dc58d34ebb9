SPECIFICATION Spec
CONSTANTS
    r1 = r1
    r2 = r2
    p1 = p1
    p2 = p2
    v1 = v1
    Runs = {r1, r2}
    PRs = {p1, p2}
    PrOf <- TwoPRs
    CommandOf <- UpUp
    Visitors = {}
    NoOne = NoOne
    Operator = Operator
    Orphan = Orphan
    Nobody = Nobody
    MaxEvents = 1
    MaxOutside = 0
    MaxVersion = 3
INVARIANT DeliveryInv
PROPERTIES BasesNeverRegress KeepsPromise
CHECK_DEADLOCK FALSE

\* One comment, two command runs of it, three events and a clock.
SPECIFICATION Spec
CONSTANTS
    c1 = c1
    p1 = p1
    member = member
    approver = approver
    d1 = d1
    d2 = d2
    Comments = {c1}
    PRs = {p1}
    Heads = {h1, h2}
    Runs = {d1, d2}
    PrOf <- OnePR
    AuthorOf <- ByMember
    Users = {member}
    Approver = approver
    Commands = {"up"}
    FirstHead = h1
    NoRequest = NoRequest
    Nobody = Nobody
    StaleAfter = 0
    ExpiresAfter = 0
    TimeLimit = 1
    MaxClock = 2
    MaxEvents = 3
INVARIANT ConsumedOnce
CHECK_DEADLOCK FALSE

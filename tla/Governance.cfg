\* Three scope runs and one promotion run; three sessions over two environments;
\* three sessions over the environments of one service and its drift jobs.
SPECIFICATION MCSpec
CONSTANTS
    p1 = p1
    p2 = p2
    PRs = {p1, p2}
    MaxBase = 1
    MaxEvents = 4
    Heads = {h1, h2}
    Touching = {h1}
    Scopes = {s1, s2, s3}
    Reports = {r1}
    Nobody = Nobody
    Reviewer = Reviewer
    Other = Other
    a1 = a1
    a2 = a2
    v = v
    prod = prod
    key = key
    test = test
    testDrift = testDrift
    prodDrift = prodDrift
    Runs = {a1, a2, v}
    Appliers = {a1, a2}
    Protected <- Reviewed
    KeyEnv = key
    MaxChanges = 1
    MaxId = 5
    Services <- Reviewed
    Drift <- Scheduled
    MaxTampers = 1
SYMMETRY Symmetry
INVARIANTS PromotionInv ControlsInv DriftInv
PROPERTIES ScopeRunsKeepProof OnlyTightens OnlyAdds
CHECK_DEADLOCK FALSE

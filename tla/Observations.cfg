SPECIFICATION MCSpec
CONSTANTS
    u1 = u1
    u2 = u2
    h1 = h1
    h2 = h2
    plain = plain
    half = half
    Reviewers = {u1, u2}
    Author = author
    Heads = {h1, h2}
    Rules = {strict, stricter, lax}
    Strong = {strict, stricter}
    NoReview = NoReview
    Required = 2
    MaxEvents = 6
    Updates = {1, 2}
    Contents = {plain, half}
    Pending = {half}
    MaxVersion = 4
SYMMETRY ReviewSymmetry
INVARIANTS ApprovalNeverLapsed HeldTogether
PROPERTIES VersionHeld NotHalfWritten AcceptedIsSettled
CHECK_DEADLOCK FALSE

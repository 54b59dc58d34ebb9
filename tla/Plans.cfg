\* Two stacks or two projects, two commits, clocks that differ by a tick, two events.
SPECIFICATION MCSpec
CONSTANTS
    a = a
    b = b
    c1 = c1
    c2 = c2
    main = main
    other = other
    desk = desk
    Stacks = {a, b}
    Commits = {c1, c2}
    Places = {main, other, desk}
    SharedPlaces = {main, other}
    StackLists <- MCStackLists
    Commands = {"plan", "up-plan", "up", "refresh", "destroy", "preview", "drift", "preview script", "drift script"}
    CI = FALSE
    MaxAge = 1
    TimeLimit = 1
    Offsets = {0, 1}
    Spread = 1
    MaxClock = 5
    MaxVersion = 4
    MaxEvents = 2
INVARIANT PlansInv
PROPERTIES ReplaysReviewedPlan PlannedOnPrepared ReplayedInTime KeepsPlans
CHECK_DEADLOCK FALSE

\* Two versions of a checkpoint; three initializations and two commands; two
\* preview runs over two stacks, validated by two threads.
SPECIFICATION MCSpec
CONSTANTS
    DataKeys = {k1, k2}
    NoKey = NoKey
    Fields = {region, accounts}
    WorkloadKeys = {webImage}
    MaxVersion = 2
    MaxChanges = 1
    Runs = {r1, r2, r3}
    Commands = {c1, c2}
    Nobody = Nobody
    MaxEvents = 2
    Stacks = {dev, test}
    Pool = 2
    MaxWeight = 4
    MaxRuns = 2
    Previews <- Shown
INVARIANTS ConfigurationInv InitializationInv GuardrailsInv
PROPERTY OnlyAbsentIsCreated
CHECK_DEADLOCK FALSE

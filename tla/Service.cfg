\* One delivery, lapsing and failing anywhere, with programs of three processes.
SPECIFICATION ExecSpec
CONSTANTS
    MaxTries = 1
    Procs = {main, p, q}
    Main = main
    Capacity = 1
    Limit <- MCLimit
    Timeout = 1
    Cleanup = 1
    MaxTime = 4
    MaxChunks = 1
INVARIANTS ProcessInv WorkerInv
PROPERTIES WholeAndAdmitted DeliveryEnds
CHECK_DEADLOCK FALSE

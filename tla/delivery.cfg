\* Two workers, two events, one failure.
SPECIFICATION FairSpec
CONSTANTS
    w1 = w1
    w2 = w2
    ann = ann
    Workers <- MCWorkers
    Gateways = {w1}
    Clients = {ann}
    Batch = 2
    QueueMax = 1
    ReplayLimit = 1
    MaxEvents = 2
    MaxFaults = 1
INVARIANTS
    TypeOK
    NothingLost
PROPERTIES
    ServedCatchUp
    RelayDrains
CHECK_DEADLOCK FALSE

\* One worker, no failures.
SPECIFICATION FairSpec
CONSTANTS
    w1 = w1
    w2 = w2
    ann = ann
    Workers = {w1}
    Gateways = {w1}
    Clients = {ann}
    Batch = 1
    QueueMax = 2
    ReplayLimit = 2
    MaxEvents = 2
    MaxFaults = 0
PROPERTIES
    LeaversAreEvicted
CHECK_DEADLOCK FALSE

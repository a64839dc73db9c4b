\* Safety, refinement and progress of the ledger engine.
SPECIFICATION FairSpec
CONSTANTS
    NumUsers = 3
    t1 = t1
    t2 = t2
    t3 = t3
    NoTxn = NoTxn
    Txns <- MCTxns
    Postings <- MCPostings
    MaxClock = 2
INVARIANTS
    TypeOK
    BalancesMatchLedger
    HouseSumsToZero
    SeqsGapless
    SnapshotsCurrent
    DebtClockRuns
PROPERTIES
    EventsAppearInOrder
    DebtClockKept
    EveryTxnEnds
    ImplementsAtomicLedger
\* A run ends when every transaction is over and the clock is at its bound.
CHECK_DEADLOCK FALSE

\* Two requests at a time.
SPECIFICATION Spec
CONSTANTS
    m1 = m1
    m2 = m2
    d1 = d1
    d2 = d2
    w1 = w1
    w2 = w2
    Users <- MCManagers
    Managers <- MCManagers
    Expenses = {e1}
    Settlements = {s1}
    Disputes <- MCDisputes
    ShareMaps <- MCShareMaps
    Adjustments <- MCAdjustments
    Amounts = {2}
    Workers <- MCWorkers
    MaxComments = 1
SYMMETRY Symmetry
CONSTRAINT FewThings
INVARIANTS
    TypeOK
    ExpenseBooked
    SettlementBooked
    DisputeBooked
    NoStakeInResolution
    EventsTellStatus
PROPERTIES
    DisputeFinal
\* Everything may have been created and closed.
CHECK_DEADLOCK FALSE

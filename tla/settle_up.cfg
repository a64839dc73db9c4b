\* Every kind of split, then settling up.
SPECIFICATION Spec
CONSTANTS
    Users <- MCFour
    Openings <- MCOpenings
    Requests <- MCRequests
INVARIANTS
    SplitsExactly
    FairToTheCent
    PaysTowardsZero
    SettlesUp
    AtMostNMinusOne
\* A suggestion is the end.
CHECK_DEADLOCK FALSE

\* A member who was away.
SPECIFICATION Spec
CONSTANTS
    Users <- MCFour
    Openings <- MCOpenings
    Requests <- MCAwayRequests
INVARIANTS
    AwayPaysNothing
\* A suggestion is the end.
CHECK_DEADLOCK FALSE

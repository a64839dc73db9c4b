\* Two requests at a time, in a house of two.
SPECIFICATION Spec
CONSTANTS
    u1 = u1
    u2 = u2
    w1 = w1
    w2 = w2
    Users <- MCUsers
    Invites = {i1}
    MaxUses = 2
    Workers <- MCWorkers
    MaxCents = 1
    MaxJoins = 3
SYMMETRY Symmetry
CONSTRAINT FewOverwritten
INVARIANTS
    TypeOK
    InviteUsesAreJoins
    EventsTellMembership
PROPERTIES
    LastManagerStays
    LeavesEven

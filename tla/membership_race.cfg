\* Two requests at a time, in a house of two.
SPECIFICATION Spec
CONSTANTS
    u1 = u1
    u2 = u2
    w1 = w1
    w2 = w2
    Users <- MCUsers
    Invites = {i1}
    MaxUses = 2
    Workers <- MCWorkers
    MaxCents = 0
    MaxJoins = 2
SYMMETRY Symmetry
INVARIANTS
    KeepsManager

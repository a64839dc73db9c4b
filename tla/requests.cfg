\* Two attempts at a time, one key, three refresh tokens.
SPECIFICATION Spec
CONSTANTS
    w1 = w1
    w2 = w2
    k1 = k1
    t1 = t1
    t2 = t2
    t3 = t3
    Workers <- MCWorkers
    Keys = {k1}
    Tokens <- MCTokens
    None = None
SYMMETRY Symmetry
INVARIANTS
    TypeOK
    OneEffectOneAnswer
    OneLiveToken

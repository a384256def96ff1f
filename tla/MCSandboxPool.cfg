SPECIFICATION Spec
CONSTANTS
    h1 = h1
    h2 = h2
    h3 = h3
    h4 = h4
    c1 = c1
    c2 = c2
    k1 = k1
    k2 = k2
    NoHandle = NoHandle
    NoEnv = NoEnv
    Handles = {h1, h2, h3, h4}
    Ids = {h1, h2, h3, h4}
    IdOf <- CollidingIds
    Callers = {c1, c2}
    Replenishers = {k1, k2}
    PoolSize = 2
    Sizes = {0}
    DefaultSize = 1
    Envs = {NoEnv}
SYMMETRY CollideSymmetry
INVARIANTS
    TypeOK
    SingleOwner
    OwnedIsUp
    NoLeak
PROPERTIES
    ColdStaysCold

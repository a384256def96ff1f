SPECIFICATION CountSpec
CONSTANTS
    h1 = h1
    h2 = h2
    h3 = h3
    h4 = h4
    h5 = h5
    h6 = h6
    c1 = c1
    k1 = k1
    k2 = k2
    NoHandle = NoHandle
    NoEnv = NoEnv
    Handles = {h1, h2, h3, h4, h5, h6}
    Ids = {h1, h2, h3, h4, h5, h6}
    IdOf <- UniqueIds
    Callers = {c1}
    Replenishers = {k1, k2}
    PoolSize = 2
    Sizes = {0}
    DefaultSize = 1
    Envs = {NoEnv}
SYMMETRY Symmetry
INVARIANTS
    WarmBound
    RefillPromise
PROPERTIES
    LifecycleSpec

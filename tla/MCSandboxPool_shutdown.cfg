SPECIFICATION Spec
CONSTANTS
    h1 = h1
    h2 = h2
    h3 = h3
    c1 = c1
    k1 = k1
    NoHandle = NoHandle
    NoEnv = NoEnv
    Handles = {h1, h2, h3}
    Ids = {h1, h2, h3}
    IdOf <- UniqueIds
    Callers = {c1}
    Replenishers = {k1}
    PoolSize = 1
    Sizes = {0}
    DefaultSize = 1
    Envs = {NoEnv}
PROPERTIES
    ShutdownDrains

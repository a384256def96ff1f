CONSTANTS
    bash = bash
    glob = glob
    C1 = C1
    C2 = C2
    C3 = C3
    H1 = H1
    H2 = H2
    H3 = H3
    X = X
    E1 = E1
    E2 = E2
    NoEnv = NoEnv
    NoName = NoName
    Nobody = Nobody
    Calls = {C1, C2, C3}
    Names = {bash, glob}
    Defaults <- MCDefaults
    Handles = {H1, H2, H3}
    Foreign = {X}
    Requests <- MCRequests
    Env <- MCEnv
    MaxVersion = 2
SPECIFICATION FairSpec
INVARIANTS TypeOK LookupCurrent EnvScope
PROPERTY CallsReturn
CHECK_DEADLOCK FALSE

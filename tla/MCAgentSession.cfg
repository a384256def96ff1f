\* Only the agent's own goroutines are fair: a client may fall silent anywhere.
\* No symmetry, because of the liveness properties.
CONSTANTS
    p1 = p1
    p2 = p2
    c1 = c1
    c2 = c2
    Probes <- MCProbes
    Calls <- MCCalls
    Timed <- MCTimed
    Backlog = 1
SPECIFICATION AgentFairSpec
INVARIANTS
    TypeOK
    CleanStop
PROPERTIES
    KeepsCallContract
    ServeReturns
    CallsReturn
\* The calls come to an end, and so does the agent.
CHECK_DEADLOCK FALSE

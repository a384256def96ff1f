SPECIFICATION FairSpec
CONSTANTS
    b = b
    d1 = d1
    d2 = d2
    d3 = d3
    Booter = b
    Destroyers = {d1, d2, d3}
INVARIANTS
    TypeOK
    FailedBootLeavesNothing
    DestroyedWhenReturned
    DirOutlivesVMM
    SigtermHitsVMM
    TerminateOnce
    StartedWhenConfigured
PROPERTIES
    KeepsContract
    BootReturns
    DestroyReturns
CHECK_DEADLOCK FALSE

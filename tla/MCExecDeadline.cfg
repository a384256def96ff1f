CONSTANTS
    Second = 2
    DefaultTimeout = 4
    Timeouts <- MCTimeouts
    Callers <- MCCallers
    Tools <- MCTools
    AgentDefault = 6
    BashDefault = 7
    FetchLimit = 5
    MaxDuration = 15
    Horizon = 12
SPECIFICATION Spec
INVARIANTS TypeOK LateOnlyOnHost OverrunBound NotCutShort NoLongerThanAsked
CHECK_DEADLOCK FALSE

CONSTANTS
    a = a
    b = b
    C1 = C1
    C2 = C2
    C3 = C3
    Calls = {C1}
    Absent = Absent
    NL = NL
    CR = CR
    MaxLine <- MCMaxLine
    DefaultLimit <- MCDefaultLimit
    Jobs <- MCJobs
    Originals <- MCOriginals
SPECIFICATION Spec
INVARIANT EditOnlyUnique
CHECK_DEADLOCK FALSE

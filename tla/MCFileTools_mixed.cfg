CONSTANTS
    a = a
    b = b
    C1 = C1
    C2 = C2
    C3 = C3
    Calls = {C1, C2}
    Absent = Absent
    NL = NL
    CR = CR
    MaxLine <- MCMaxLine
    DefaultLimit <- MCDefaultLimit
    Jobs <- WriteJobs
    Originals <- MCOriginals
SPECIFICATION Spec
INVARIANT WrittenWhole
CHECK_DEADLOCK FALSE

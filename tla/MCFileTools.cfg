CONSTANTS
    a = a
    b = b
    C1 = C1
    C2 = C2
    C3 = C3
    Calls = {C1, C2, C3}
    Absent = Absent
    NL = NL
    CR = CR
    MaxLine <- MCMaxLine
    DefaultLimit <- MCDefaultLimit
    Jobs <- MCJobs
    Originals <- MCOriginals
SYMMETRY MCSymmetry
SPECIFICATION Spec
INVARIANTS TypeOK 
PROPERTY KeepsFileStore
CHECK_DEADLOCK FALSE

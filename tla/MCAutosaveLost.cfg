SPECIFICATION Spec
CONSTANTS
    a = a
    b = b
    t0 = t0
    t1 = t1
    t2 = t2
    Sessions = {a, b}
    Texts = {t0, t1, t2}
    First = t0
    MaxEdits = 1
    MaxOps = 2
    MaxFaults = 0
SYMMETRY Symmetry
PROPERTIES
    LocalEditsKept
CHECK_DEADLOCK FALSE

SPECIFICATION LiveSpec
CONSTANTS
    a = a
    b = b
    t0 = t0
    t1 = t1
    t2 = t2
    Sessions = {a, b}
    Texts = {t0, t1, t2}
    First = t0
    MaxEdits = 2
    MaxOps = 1
    MaxFaults = 1
PROPERTIES
    EditsSettle
CHECK_DEADLOCK FALSE

SPECIFICATION Spec
CONSTANTS
    a = a
    b = b
    t0 = t0
    t1 = t1
    t2 = t2
    Sessions = {a, b}
    Texts = {t0, t1, t2}
    First = t0
    MaxEdits = 2
    MaxOps = 2
    MaxFaults = 1
SYMMETRY Symmetry
PROPERTIES
    NoForeignOverwrite
    LocalEditsKeptWhileEnabled
    SubmitTakesWhatIsShown

CHECK_DEADLOCK FALSE

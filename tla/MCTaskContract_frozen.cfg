SPECIFICATION Spec
CONSTANTS
    Tasks = {t1}
    OldTasks = {}
    Callers = {c1, c2}
    Bodies = {b1, b2}
    Kinds = {"implementation"}
    MaxRev = 2
    Revised = {t1}
    None = None
    t1 = t1
    t2 = t2
    c1 = c1
    c2 = c2
    c3 = c3
    b1 = b1
    b2 = b2
SYMMETRY Symmetry
PROPERTY FrozenImmutable
CHECK_DEADLOCK FALSE

SPECIFICATION Spec
CONSTANTS
    p1 = p1  p2 = p2  c1 = c1  c2 = c2  r1 = r1  r2 = r2  None = None
    f1 = f1  f2 = f2  b1 = b1  b2 = b2
    Roots = {r1, r2}
    Ids = {p1, p2}
    Callers = {c1, c2}
    MaxCalls = 3
    MaxHarms = 1
    Edited <- SomeEdits
    Top = None
    Sources = {f1, f2}
    Unfit = {f2}
    Rebuilders = {b1, b2}
    MaxRebuilds = 2
    MaxSourceEdits = 1
    MaxItems = 1
SYMMETRY Symmetry
INVARIANTS NoTwoHomes SuccessStays FoundAlike ReadyMeansIndexed
CHECK_DEADLOCK FALSE

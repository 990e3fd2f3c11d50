SPECIFICATION DeskSpec
CONSTANTS
    c1 = c1  a1 = a1  a2 = a2  h1 = h1  d1 = d1  d2 = d2  t1 = t1  src = src
    None = None
    Creators = {c1}
    Callers = {a1, a2}
    Handoffs = {h1}
    DecisionIds = {d1, d2}
    Drafts = {t1}
    Values = {"accepted", "needs_user_input"}
    Kinds = {"implementation"}
    Faults = {"crash"}
    Source = src
    Sources <- SomeSources
    Endings = {"done", "cancelled"}
    MaxRev = 2
    MaxNodes = 20
SYMMETRY Symmetry
INVARIANTS InboxFaithful AuditExact LineageWhole
CHECK_DEADLOCK FALSE

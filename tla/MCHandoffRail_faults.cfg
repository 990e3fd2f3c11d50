SPECIFICATION FairSpec
CONSTANTS
    c1 = c1  c2 = c2  a1 = a1  a2 = a2
    h1 = h1  h2 = h2  d1 = d1  d2 = d2  t1 = t1  t2 = t2
    None = None
    Creators = {c1}
    Callers = {a1, a2}
    Handoffs = {h1}
    DecisionIds = {d1, d2}
    Drafts = {t1, t2}
    Values = {"accepted", "needs_user_input", "review_required"}
    Kinds = {"review", "implementation"}
    Faults = {"write", "crash"}
INVARIANTS OnlyDecided NoLateDuplicate
PROPERTIES ImplementsDecisions AckCompletes
CHECK_DEADLOCK FALSE

SPECIFICATION Spec
CONSTANTS
    NoMode = NoMode  NoTask = NoTask
    Exprs = {"src", "lib", "bad"}
    BadExprs = {"bad"}
    MaxRevision = 2
    call1 = call1  call2 = call2
    Calls = {call1, call2}
    NoOverride = NoOverride
    Counts <- FewCounts
    Ill = Ill
    NoCard = NoCard  NoHandoff = NoHandoff  NoEvent = NoEvent
    MaxReports = 2
    o1 = o1  o2 = o2
    Operators = {o1, o2}
    Missing = Missing
    MaxCalls = 2
    MaxEvents = 3
SYMMETRY Symmetry
INVARIANTS SpecKept VerdictKept NeverSilent HandedOn LandsHome AllOrNothing NeverDowngraded
PROPERTIES RemovalApproved
CHECK_DEADLOCK FALSE

SPECIFICATION FairSpec
CONSTANTS
    e1 = e1  e2 = e2  e3 = e3  e4 = e4
    A = A  C = C  None = None
    p1 = p1  p2 = p2  p3 = p3  p4 = p4
    d1 = d1  d2 = d2
    Events = {e1, e2, e3, e4}
    Sessions = {A, C}
    Producers = {p1, p2, p3, p4}
    Drainers = {d1, d2}
    Origin <- MCOrigin
    CreatedAt <- MCCreatedAt
    EventOf <- MCEventOf
    SessionOf <- MCSessionOf
    Limit = 1
    Faults = {}
PROPERTIES DrainsAllPending
CHECK_DEADLOCK FALSE

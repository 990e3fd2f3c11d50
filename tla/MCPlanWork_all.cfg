SPECIFICATION MCSpec
CONSTANTS
    m1 = m1  w1 = w1  pt1 = pt1  n1 = n1  n2 = n2  s1 = s1
    c1 = c1  c2 = c2  r1 = r1  r2 = r2  None = None  NoConfig = NoConfig
    Milestones = {m1}
    WorkItems = {w1}
    Decisions = {}
    TaskIds = {pt1}
    Notes = {n1}
    Callers = {c1, c2}
    Specs = {s1}
    Ops = {"set_work_item_status"}
    Starts <- SomePlans
    Preflight = {w1}
    MaxAudits = 1
    Configs <- SomeConfigs
    Runners = {r1, r2}
    Keys = {"k1", "k2"}
    MaxEdits = 2
    Paths <- SomeFiles
    Plugin = {}
    FrozenSpecs <- SomeSpecs
    Sites <- SomeSites
    Faults = {"telemetry", "ledger", "kill", "revise", "git"}
    MaxEvents = 2
    MaxTroubles = 1
SYMMETRY Symmetry
INVARIANTS LedgerTellsAll FrozenWhenFit OneConfig CompliantMeansInScope HonestIsCompliant
PROPERTIES FailsClosed
CHECK_DEADLOCK FALSE

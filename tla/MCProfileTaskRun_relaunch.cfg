\* Expected to be violated (README, findings). Tasks end.
CONSTANTS
  s1 = s1  s2 = s2  c1 = c1  o1 = o1  o2 = o2  L = L
  Starters = {s1, s2}
  Cancellers = {c1}
  Observers = {o1}
  Launcher = L
  NoActor = NoActor
  Timed = TRUE
  Steward = FALSE
  Faults = {}
  MayCrash = {}
SPECIFICATION Spec
INVARIANTS StartFailsBeforeLaunch
CHECK_DEADLOCK FALSE

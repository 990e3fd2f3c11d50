\* Two racing starts; every actor may die; every fault but the double ones. Tasks end.
CONSTANTS
  s1 = s1  s2 = s2  c1 = c1  o1 = o1  o2 = o2  L = L
  Starters = {s1, s2}
  Cancellers = {c1}
  Observers = {o1}
  Launcher = L
  NoActor = NoActor
  Timed = TRUE
  Steward = TRUE
  Faults = {"launch", "commit", "finalize", "publish"}
  MayCrash = {s1, s2, c1, o1, L}
SPECIFICATION Spec
INVARIANTS AtMostOneLaunch TerminalHasReceipt CancelledIffConfirmed
PROPERTIES ImplementsLifecycle
CHECK_DEADLOCK FALSE

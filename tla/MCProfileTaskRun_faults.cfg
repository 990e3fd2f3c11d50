\* Two racing status calls; the fallback and the status write may fail as well. Tasks end.
CONSTANTS
  s1 = s1  s2 = s2  c1 = c1  o1 = o1  o2 = o2  L = L
  Starters = {s1}
  Cancellers = {c1}
  Observers = {o1, o2}
  Launcher = L
  NoActor = NoActor
  Timed = TRUE
  Steward = FALSE
  Faults = {"finalize", "publish", "fallback", "reconcile"}
  MayCrash = {c1, L}
SPECIFICATION Spec
INVARIANTS StatusHasEvidence
PROPERTIES TerminalIsFinal
CHECK_DEADLOCK FALSE

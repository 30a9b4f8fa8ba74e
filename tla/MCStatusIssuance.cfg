SPECIFICATION Spec
CONSTANTS
  Process = {p1, p2}
  Output = {o1, o2, o3}
  Certificate = {x1, x2, x3}
  MaxTime = 4
  MaxCrashes = 2
  NoList = NoList
  NoProcess = NoProcess
SYMMETRY Names
INVARIANTS
  FinishedIsRemembered
  ListsContinueInOrder
PROPERTIES
  OutputsAreWrittenOnce
CHECK_DEADLOCK FALSE

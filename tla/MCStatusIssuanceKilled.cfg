SPECIFICATION Spec
CONSTANTS
  Process = {p1}
  Output = {o1, o2, o3}
  Certificate = {x1, x2, x3}
  MaxTime = 4
  MaxCrashes = 1
  NoList = NoList
  NoProcess = NoProcess
SYMMETRY Names
INVARIANTS
  ListsContinue
CHECK_DEADLOCK FALSE

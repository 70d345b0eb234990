CONSTANTS
  MaxProcesses = 2
  Tasks = {t1, t2, t3}
  Procs = {p1, p2, p3, p4}
  NULL = NULL
  InjectMayFail = TRUE
SPECIFICATION Spec
SYMMETRY Symmetry
INVARIANTS RunningLive FocusLive

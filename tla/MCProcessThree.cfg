CONSTANTS
  MaxProcesses = 3
  Tasks = {t1, t2, t3, t4}
  Procs = {p1, p2, p3, p4, p5}
  NULL = NULL
  InjectMayFail = FALSE
SPECIFICATION Spec
SYMMETRY Symmetry
INVARIANTS TypeOK NoTaskLost RunningLive FocusLive
PROPERTIES OnlyTailLeaves ResumesLauncher

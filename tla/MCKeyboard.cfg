CONSTANTS
  Procs = {p1, p2}
  BufferSize = 2
  IntModulus = 4
  ScanSetOne <- MCScanSetOne
  Scancodes = {0, 1, 2, 3, 4, 5, 9}
  PastTable = {0, 66, 97}
  KeyReleased = 8
  CapsLock = 3
  TypeAhead = 2
SPECIFICATION Spec
INVARIANTS TypeOK RingHoldsTyped
PROPERTIES CaseFollowsCapsLock ImplementsQueue

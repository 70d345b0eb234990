CONSTANTS
  Tasks = {t1, t2, t3}
  Contexts = 2
  TickModulus = 8
  Millis <- MCMillis
SPECIFICATION SpecDivide
INVARIANT UserLand

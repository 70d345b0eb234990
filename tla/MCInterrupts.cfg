CONSTANTS
  Tasks = {t1, t2, t3}
  Contexts = 2
  TickModulus = 8
  Millis <- MCMillis
SPECIFICATION FairSpec
INVARIANTS TypeOK ResumesExactly WaitingRegistersAreUser UserLand SleepsLongEnough
PROPERTY EverySleepEnds

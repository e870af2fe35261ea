SPECIFICATION FairSpec
CONSTANTS
  Worker = {w1, w2}
  Task = {t1, t2, t3}
INVARIANTS
  NoLostWakeup
PROPERTIES
  TaskRuns
  ShutdownWakes
CHECK_DEADLOCK FALSE
